---- MODULE Spec2Model ----
(***************************************************************************)
(* Model of aws-console: the root command's profile resolution, the        *)
(* credential-resolution workflow (runWorkflow) and the two helpers it is  *)
(* wired to by defaultRunDeps (ssoLogin, openBrowser).                     *)
(*                                                                         *)
(* An error value is the sequence of the segments of its message, joined   *)
(* by ": " in the program: fmt.Errorf("p: %w", e) prepends the segment p   *)
(* to the segments of e, and the nil error is the empty sequence.          *)
(***************************************************************************)
EXTENDS Integers, Sequences, FiniteSets, TLC

\* ------------------------------------------------------------------------
\* Values

\* const sessionDuration = 43200 (12 hours)
sessionDuration == 43200

NoError == << >>

\* fmt.Errorf("<prefix>: %w", cause)
Errorf(prefix, cause) == <<prefix>> \o cause

\* errors.New(msg) as returned by a collaborator
NewError(msg) == <<msg>>

\* awslib.Identity{} and awslib.Credentials{}
ZeroIdentity == [Arn |-> ""]
ZeroCredentials == [AccessKeyID |-> "", SecretAccessKey |-> "", SessionToken |-> ""]

\* Values of the -p/--profile flag and of AWS_PROFILE ("" is unset or empty)
Profiles == {"", "flag-profile", "env-profile"}

\* runtime.GOOS values; "plan9" stands for every platform openBrowser does not know
Platforms == {"darwin", "linux", "windows", "plan9"}

\* Errors the collaborators can return
ServiceErrors == {NewError("expired token"), NewError("failed to load AWS config")}
ExecErrors == {NewError("exec failed")}
FederationErrors == {NewError("federation failed")}

\* Responses of awsService.GetCallerIdentity: (Identity, error)
IdentityResponses ==
    {[val |-> [Arn |-> a], err |-> NoError] : a \in {"arn:user/test", "arn:role/admin"}}
    \cup {[val |-> ZeroIdentity, err |-> e] : e \in ServiceErrors}

\* Responses of awsService.RetrieveCredentials: (Credentials, error)
RetrieveResponses ==
    {[val |-> [AccessKeyID |-> "AKIA_LONG", SecretAccessKey |-> "long-secret", SessionToken |-> ""],
      err |-> NoError],
     [val |-> [AccessKeyID |-> "ASIA_SSO", SecretAccessKey |-> "sso-secret", SessionToken |-> "token"],
      err |-> NoError]}
    \cup {[val |-> ZeroCredentials, err |-> e] : e \in ServiceErrors}

\* Responses of awsService.GetSessionToken: (Credentials, error).  SDKService
\* builds the result with awsv2.ToString, which maps a nil *string of the STS
\* output to "", so a successful response may carry an empty SessionToken.
SessionTokenResponses ==
    {[val |-> [AccessKeyID |-> "AKIA_TEMP", SecretAccessKey |-> "temp-secret", SessionToken |-> t],
      err |-> NoError] : t \in {"temp-token", ""}}
    \cup {[val |-> ZeroCredentials, err |-> e] : e \in ServiceErrors}

\* Responses of federation.BuildConsoleURL: (string, error)
URLResponses ==
    {[val |-> u, err |-> NoError] : u \in {"https://example.com/console-login", "https://example.com/federated"}}
    \cup {[val |-> "", err |-> e] : e \in FederationErrors}

\* Responses of Executor.Run and Executor.Start
ExecResponses == {NoError} \cup ExecErrors

\* Status messages
MsgNotValid == "Credentials are not valid, attempting SSO login..."
MsgNoToken == "No session token found, requesting temporary credentials..."
MsgAuthenticated == "Authenticated as: "
MsgOpening == "Opening AWS Console in your browser..."

\* ------------------------------------------------------------------------
\* State

VARIABLES
    pc,          \* position in RunE / runWorkflow: the call about to be made
    flag,        \* value of the -p/--profile flag
    envProfile,  \* value of the AWS_PROFILE environment variable
    goos,        \* deps.goos
    profile,     \* runWorkflow's profile parameter
    identity,    \* runWorkflow local
    creds,       \* runWorkflow local
    loginURL,    \* runWorkflow local
    result,      \* the error runWorkflow returned
    calls,       \* collaborator calls made by runWorkflow, in order, with their arguments
    returns,     \* returns[i] is what the call calls[i] returned
    execCalls,   \* calls received by deps.executor, in order
    stdout,      \* lines written to deps.stdout
    stderr       \* lines written to deps.stderr

\* What is remembered of an earlier run of runWorkflow in the same process
VARIABLES
    prior        \* << >>, or the calls, returns, output and result of the earlier run

workflowVars == <<pc, flag, envProfile, goos, profile, identity, creds, loginURL,
                  result, calls, returns, execCalls, stdout, stderr, prior>>

\* The components that are also run on their own, outside the workflow
\* (as their unit tests and the release tooling do), each with its own state.
VARIABLES
    fedPc,       \* FederationClient.BuildConsoleURL: "call" before, "done" after the call
    fedIn,       \* its receiver and arguments
    fedRequests, \* the HTTP requests it handed to client.Do, in order
    fedOut       \* what it returned: (string, error)

fedVars == <<fedPc, fedIn, fedRequests, fedOut>>

VARIABLES
    sdkPc,       \* SDKService: "call" before, "done" after the operation
    sdkIn,       \* the arguments of the operation
    sdkCalls,    \* the calls the operation made to the loader, the factory, STS
                 \* and the credentials provider, in order
    sdkOut       \* the operation and what it returned

sdkVars == <<sdkPc, sdkIn, sdkCalls, sdkOut>>

VARIABLES
    relPc,       \* release.sh: position in main
    relIn,       \* command line, repository and answers the script runs with
    relLocal,    \* main's locals once the arguments are parsed
    relTags,     \* the tags of the repository: tag name -> annotated message
    relPushed,   \* the tags pushed to origin, in order
    relPrompts,  \* the confirmation prompts issued, in order
    relOut,      \* the lines written to stdout and stderr, in order
    relStatus    \* the exit status (-1 while running)

relVars == <<relPc, relIn, relLocal, relTags, relPushed, relPrompts, relOut, relStatus>>

VARIABLES
    notesPc,     \* generate-release-notes.sh: position in main
    notesIn,     \* the current tag and the tags of the repository it runs with
    notesLocal,  \* main's locals: prev_tag, range, release_kind
    notesLog,    \* the commits 'git log' listed for the range, newest first
    notesLines,  \* commit_lines, as read from the output of 'git log'
    notesGroups, \* the items collected in breaking, features, fixes, others
    notesOut,    \* the lines of the output file, in order
    notesStatus  \* the exit status (-1 while running)

notesVars == <<notesPc, notesIn, notesLocal, notesLog, notesLines, notesGroups,
               notesOut, notesStatus>>

unitVars == <<fedVars, sdkVars, relVars, notesVars>>

vars == <<workflowVars, unitVars>>

\* A component that is not run in a specification stays in its idle state
FedIdle ==
    /\ fedPc = "idle"
    /\ fedIn = << >>
    /\ fedRequests = << >>
    /\ fedOut = << >>

SDKIdle ==
    /\ sdkPc = "idle"
    /\ sdkIn = << >>
    /\ sdkCalls = << >>
    /\ sdkOut = << >>

ReleaseIdle ==
    /\ relPc = "idle"
    /\ relIn = << >>
    /\ relLocal = << >>
    /\ relTags = << >>
    /\ relPushed = << >>
    /\ relPrompts = << >>
    /\ relOut = << >>
    /\ relStatus = -1

NotesIdle ==
    /\ notesPc = "idle"
    /\ notesIn = << >>
    /\ notesLocal = << >>
    /\ notesLog = << >>
    /\ notesLines = << >>
    /\ notesGroups = << >>
    /\ notesOut = << >>
    /\ notesStatus = -1

WorkflowIdle ==
    /\ pc = "idle"
    /\ flag = ""
    /\ envProfile = ""
    /\ goos = ""
    /\ profile = ""
    /\ identity = ZeroIdentity
    /\ creds = ZeroCredentials
    /\ loginURL = ""
    /\ result = NoError
    /\ calls = << >>
    /\ returns = << >>
    /\ execCalls = << >>
    /\ stdout = << >>
    /\ stderr = << >>
    /\ prior = << >>

\* A recorded collaborator call: the operation and its arguments
Call(op, p, c, d, u) == [op |-> op, profile |-> p, creds |-> c, duration |-> d, url |-> u]

\* What a collaborator call returned
RetIdentity(r) == [identity |-> r.val, creds |-> ZeroCredentials, url |-> "", err |-> r.err]
RetCredentials(r) == [identity |-> ZeroIdentity, creds |-> r.val, url |-> "", err |-> r.err]
RetURL(r) == [identity |-> ZeroIdentity, creds |-> ZeroCredentials, url |-> r.val, err |-> r.err]
RetError(e) == [identity |-> ZeroIdentity, creds |-> ZeroCredentials, url |-> "", err |-> e]

\* A recorded executor call, as the tests' fakeExecutor records it, and what it returned
ExecCall(method, name, args, ret) ==
    [method |-> method, name |-> name, args |-> args, ret |-> ret]

Init ==
    /\ pc = "RunE"
    /\ flag \in Profiles
    /\ envProfile \in Profiles
    /\ goos \in Platforms
    /\ profile = ""
    /\ identity = ZeroIdentity
    /\ creds = ZeroCredentials
    /\ loginURL = ""
    /\ result = NoError
    /\ calls = << >>
    /\ returns = << >>
    /\ execCalls = << >>
    /\ stdout = << >>
    /\ stderr = << >>
    /\ prior = << >>
    /\ FedIdle
    /\ SDKIdle
    /\ ReleaseIdle
    /\ NotesIdle

\* ------------------------------------------------------------------------
\* newRootCmd: RunE resolves the profile and hands it to the runner

\* Fault variant: the environment variable takes precedence over the flag
resolvedProfile_EnvFirst(f, e) == IF e # "" THEN e ELSE f

resolvedProfile(f, e) == IF f = "" THEN e ELSE f

RunE ==
    /\ pc = "RunE"
    /\ profile' = resolvedProfile(flag, envProfile)
    /\ pc' = "GetCallerIdentity"
    /\ UNCHANGED <<unitVars, prior>>
    /\ UNCHANGED <<flag, envProfile, goos, identity, creds, loginURL,
                   result, calls, returns, execCalls, stdout, stderr>>

\* ------------------------------------------------------------------------
\* runWorkflow, one action per collaborator call: the action records the call,
\* draws the collaborator's response and runs the code up to the next call.

\* Fault variant: a failed validation is retried without the login
GetCallerIdentity_NoLogin ==
    /\ pc = "GetCallerIdentity"
    /\ \E r \in IdentityResponses :
        /\ calls' = Append(calls, Call("GetCallerIdentity", profile, ZeroCredentials, 0, ""))
        /\ returns' = Append(returns, RetIdentity(r))
        /\ identity' = r.val
        /\ IF r.err # NoError
           THEN /\ stderr' = Append(stderr, <<MsgNotValid>>)
                /\ pc' = "GetCallerIdentityRetry"
                /\ UNCHANGED stdout
           ELSE /\ stdout' = Append(stdout, <<MsgAuthenticated, r.val.Arn>>)
                /\ pc' = "RetrieveCredentials"
                /\ UNCHANGED stderr
    /\ UNCHANGED <<unitVars, prior>>
    /\ UNCHANGED <<flag, envProfile, goos, profile, creds, loginURL, result, execCalls>>

\* identity, err := deps.awsService.GetCallerIdentity(ctx, profile)
GetCallerIdentity ==
    /\ pc = "GetCallerIdentity"
    /\ \E r \in IdentityResponses :
        /\ calls' = Append(calls, Call("GetCallerIdentity", profile, ZeroCredentials, 0, ""))
        /\ returns' = Append(returns, RetIdentity(r))
        /\ identity' = r.val
        /\ IF r.err # NoError
           THEN /\ stderr' = Append(stderr, <<MsgNotValid>>)
                /\ pc' = "login"
                /\ UNCHANGED stdout
           ELSE /\ stdout' = Append(stdout, <<MsgAuthenticated, r.val.Arn>>)
                /\ pc' = "RetrieveCredentials"
                /\ UNCHANGED stderr
    /\ UNCHANGED <<unitVars, prior>>
    /\ UNCHANGED <<flag, envProfile, goos, profile, creds, loginURL, result, execCalls>>

\* Fault variant: --profile is appended even for the empty profile
ssoLoginArgs_AlwaysProfile(p) == <<"sso", "login">> \o <<"--profile", p>>

\* ssoLogin: the arguments of the 'aws' command
ssoLoginArgs(p) ==
    IF p # "" THEN <<"sso", "login">> \o <<"--profile", p>> ELSE <<"sso", "login">>

\* ssoLogin: return deps.executor.Run("aws", args, ...)
ssoLogin(runErr) == runErr

\* Fault variant: the login failure wraps err (of GetCallerIdentity) instead of loginErr
login_WrapsErr ==
    /\ pc = "login"
    /\ \E runErr \in ExecResponses :
        LET loginErr == ssoLogin(runErr)
        IN /\ execCalls' = Append(execCalls, ExecCall("run", "aws", ssoLoginArgs(profile), runErr))
           /\ calls' = Append(calls, Call("login", profile, ZeroCredentials, 0, ""))
           /\ returns' = Append(returns, RetError(loginErr))
           /\ IF loginErr # NoError
              THEN /\ result' = Errorf("SSO login failed", returns[1].err)
                   /\ pc' = "done"
              ELSE /\ pc' = "GetCallerIdentityRetry"
                   /\ UNCHANGED result
    /\ UNCHANGED <<unitVars, prior>>
    /\ UNCHANGED <<flag, envProfile, goos, profile, identity, creds, loginURL, stdout, stderr>>

\* if loginErr := deps.login(profile); loginErr != nil { return ... }
\* deps.login is ssoLogin (defaultRunDeps)
\* Fault variant: after the login the credentials are not validated again
login_SkipsRetry ==
    /\ pc = "login"
    /\ \E runErr \in ExecResponses :
        LET loginErr == ssoLogin(runErr)
        IN /\ execCalls' = Append(execCalls, ExecCall("run", "aws", ssoLoginArgs(profile), runErr))
           /\ calls' = Append(calls, Call("login", profile, ZeroCredentials, 0, ""))
           /\ returns' = Append(returns, RetError(loginErr))
           /\ IF loginErr # NoError
              THEN /\ result' = Errorf("SSO login failed", loginErr)
                   /\ pc' = "done"
              ELSE /\ pc' = "RetrieveCredentials"
                   /\ UNCHANGED result
    /\ UNCHANGED <<unitVars, prior>>
    /\ UNCHANGED <<flag, envProfile, goos, profile, identity, creds, loginURL, stdout, stderr>>

\* if loginErr := deps.login(profile); loginErr != nil
login ==
    /\ pc = "login"
    /\ \E runErr \in ExecResponses :
        LET loginErr == ssoLogin(runErr)
        IN /\ execCalls' = Append(execCalls, ExecCall("run", "aws", ssoLoginArgs(profile), runErr))
           /\ calls' = Append(calls, Call("login", profile, ZeroCredentials, 0, ""))
           /\ returns' = Append(returns, RetError(loginErr))
           /\ IF loginErr # NoError
              THEN /\ result' = Errorf("SSO login failed", loginErr)
                   /\ pc' = "done"
              ELSE /\ pc' = "GetCallerIdentityRetry"
                   /\ UNCHANGED result
    /\ UNCHANGED <<unitVars, prior>>
    /\ UNCHANGED <<flag, envProfile, goos, profile, identity, creds, loginURL, stdout, stderr>>

\* Fault variant: the retry assigns to shadowed variables, so the identity of
\* the first call is the one reported
GetCallerIdentityRetry_StaleIdentity ==
    /\ pc = "GetCallerIdentityRetry"
    /\ \E r \in IdentityResponses :
        /\ calls' = Append(calls, Call("GetCallerIdentity", profile, ZeroCredentials, 0, ""))
        /\ returns' = Append(returns, RetIdentity(r))
        /\ IF r.err # NoError
           THEN /\ result' = Errorf("credentials still invalid after SSO login", r.err)
                /\ pc' = "done"
                /\ UNCHANGED stdout
           ELSE /\ stdout' = Append(stdout, <<MsgAuthenticated, identity.Arn>>)
                /\ pc' = "RetrieveCredentials"
                /\ UNCHANGED result
    /\ UNCHANGED <<unitVars, prior>>
    /\ UNCHANGED <<flag, envProfile, goos, profile, identity, creds, loginURL, execCalls, stderr>>

\* identity, err = deps.awsService.GetCallerIdentity(ctx, profile)   (after login)
\* Fault variant: a failed second validation starts a second login
GetCallerIdentityRetry_SecondLogin ==
    /\ pc = "GetCallerIdentityRetry"
    /\ \E r \in IdentityResponses :
        /\ calls' = Append(calls, Call("GetCallerIdentity", profile, ZeroCredentials, 0, ""))
        /\ returns' = Append(returns, RetIdentity(r))
        /\ identity' = r.val
        /\ IF r.err # NoError
           THEN /\ result' = Errorf("credentials still invalid after SSO login", r.err)
                /\ pc' = IF Len(calls) < 4 THEN "login" ELSE "done"
                /\ UNCHANGED stdout
           ELSE /\ stdout' = Append(stdout, <<MsgAuthenticated, r.val.Arn>>)
                /\ pc' = "RetrieveCredentials"
                /\ UNCHANGED result
    /\ UNCHANGED <<unitVars, prior>>
    /\ UNCHANGED <<flag, envProfile, goos, profile, creds, loginURL, execCalls, stderr>>

\* identity, err = deps.awsService.GetCallerIdentity(ctx, profile), after the login
GetCallerIdentityRetry ==
    /\ pc = "GetCallerIdentityRetry"
    /\ \E r \in IdentityResponses :
        /\ calls' = Append(calls, Call("GetCallerIdentity", profile, ZeroCredentials, 0, ""))
        /\ returns' = Append(returns, RetIdentity(r))
        /\ identity' = r.val
        /\ IF r.err # NoError
           THEN /\ result' = Errorf("credentials still invalid after SSO login", r.err)
                /\ pc' = "done"
                /\ UNCHANGED stdout
           ELSE /\ stdout' = Append(stdout, <<MsgAuthenticated, r.val.Arn>>)
                /\ pc' = "RetrieveCredentials"
                /\ UNCHANGED result
    /\ UNCHANGED <<unitVars, prior>>
    /\ UNCHANGED <<flag, envProfile, goos, profile, creds, loginURL, execCalls, stderr>>

\* Fault variant: the error of RetrieveCredentials is not checked
RetrieveCredentials_NoReturn ==
    /\ pc = "RetrieveCredentials"
    /\ \E r \in RetrieveResponses :
        /\ calls' = Append(calls, Call("RetrieveCredentials", profile, ZeroCredentials, 0, ""))
        /\ returns' = Append(returns, RetCredentials(r))
        /\ creds' = r.val
        /\ IF r.val.SessionToken = ""
           THEN /\ stdout' = Append(stdout, <<MsgNoToken>>)
                /\ pc' = "GetSessionToken"
           ELSE /\ pc' = "BuildConsoleURL"
                /\ UNCHANGED stdout
    /\ UNCHANGED <<unitVars, prior>>
    /\ UNCHANGED <<flag, envProfile, goos, profile, identity, loginURL, result, execCalls, stderr>>

\* Fault variant: temporary credentials are requested whatever the session token
RetrieveCredentials_AlwaysUpgrade ==
    /\ pc = "RetrieveCredentials"
    /\ \E r \in RetrieveResponses :
        /\ calls' = Append(calls, Call("RetrieveCredentials", profile, ZeroCredentials, 0, ""))
        /\ returns' = Append(returns, RetCredentials(r))
        /\ creds' = r.val
        /\ IF r.err # NoError
           THEN /\ result' = Errorf("failed to retrieve credentials", r.err)
                /\ pc' = "done"
                /\ UNCHANGED stdout
           ELSE /\ stdout' = Append(stdout, <<MsgNoToken>>)
                /\ pc' = "GetSessionToken"
                /\ UNCHANGED result
    /\ UNCHANGED <<unitVars, prior>>
    /\ UNCHANGED <<flag, envProfile, goos, profile, identity, loginURL, execCalls, stderr>>

\* creds, err := deps.awsService.RetrieveCredentials(ctx, profile)
RetrieveCredentials ==
    /\ pc = "RetrieveCredentials"
    /\ \E r \in RetrieveResponses :
        /\ calls' = Append(calls, Call("RetrieveCredentials", profile, ZeroCredentials, 0, ""))
        /\ returns' = Append(returns, RetCredentials(r))
        /\ creds' = r.val
        /\ IF r.err # NoError
           THEN /\ result' = Errorf("failed to retrieve credentials", r.err)
                /\ pc' = "done"
                /\ UNCHANGED stdout
           ELSE IF r.val.SessionToken = ""
           THEN /\ stdout' = Append(stdout, <<MsgNoToken>>)
                /\ pc' = "GetSessionToken"
                /\ UNCHANGED result
           ELSE /\ pc' = "BuildConsoleURL"
                /\ UNCHANGED <<result, stdout>>
    /\ UNCHANGED <<unitVars, prior>>
    /\ UNCHANGED <<flag, envProfile, goos, profile, identity, loginURL, execCalls, stderr>>

\* Fault variant: the temporary credentials are dropped (assigned to a shadowed variable)
GetSessionToken_KeepsCreds ==
    /\ pc = "GetSessionToken"
    /\ \E r \in SessionTokenResponses :
        /\ calls' = Append(calls, Call("GetSessionToken", profile, ZeroCredentials, sessionDuration, ""))
        /\ returns' = Append(returns, RetCredentials(r))
        /\ IF r.err # NoError
           THEN /\ result' = Errorf("failed to get temporary credentials", r.err)
                /\ pc' = "done"
           ELSE /\ pc' = "BuildConsoleURL"
                /\ UNCHANGED result
    /\ UNCHANGED <<unitVars, prior>>
    /\ UNCHANGED <<flag, envProfile, goos, profile, identity, creds, loginURL, execCalls,
                   stdout, stderr>>

\* Fault variant: the temporary credentials are requested for the default profile
GetSessionToken_DefaultProfile ==
    /\ pc = "GetSessionToken"
    /\ \E r \in SessionTokenResponses :
        /\ calls' = Append(calls, Call("GetSessionToken", "", ZeroCredentials, sessionDuration, ""))
        /\ returns' = Append(returns, RetCredentials(r))
        /\ creds' = r.val
        /\ IF r.err # NoError
           THEN /\ result' = Errorf("failed to get temporary credentials", r.err)
                /\ pc' = "done"
           ELSE /\ pc' = "BuildConsoleURL"
                /\ UNCHANGED result
    /\ UNCHANGED <<unitVars, prior>>
    /\ UNCHANGED <<flag, envProfile, goos, profile, identity, loginURL, execCalls, stdout, stderr>>

\* creds, err = deps.awsService.GetSessionToken(ctx, profile, deps.sessionDuration)
GetSessionToken ==
    /\ pc = "GetSessionToken"
    /\ \E r \in SessionTokenResponses :
        /\ calls' = Append(calls, Call("GetSessionToken", profile, ZeroCredentials, sessionDuration, ""))
        /\ returns' = Append(returns, RetCredentials(r))
        /\ creds' = r.val
        /\ IF r.err # NoError
           THEN /\ result' = Errorf("failed to get temporary credentials", r.err)
                /\ pc' = "done"
           ELSE /\ pc' = "BuildConsoleURL"
                /\ UNCHANGED result
    /\ UNCHANGED <<unitVars, prior>>
    /\ UNCHANGED <<flag, envProfile, goos, profile, identity, loginURL, execCalls, stdout, stderr>>

\* Fault variant: the error of BuildConsoleURL is not checked
BuildConsoleURL_NoReturn ==
    /\ pc = "BuildConsoleURL"
    /\ \E r \in URLResponses :
        /\ calls' = Append(calls, Call("BuildConsoleURL", "", creds, sessionDuration, ""))
        /\ returns' = Append(returns, RetURL(r))
        /\ loginURL' = r.val
        /\ stdout' = Append(stdout, <<MsgOpening>>)
        /\ pc' = "open"
    /\ UNCHANGED <<unitVars, prior>>
    /\ UNCHANGED <<flag, envProfile, goos, profile, identity, creds, result, execCalls, stderr>>

\* loginURL, err := deps.federation.BuildConsoleURL(ctx, creds, deps.sessionDuration)
BuildConsoleURL ==
    /\ pc = "BuildConsoleURL"
    /\ \E r \in URLResponses :
        /\ calls' = Append(calls, Call("BuildConsoleURL", "", creds, sessionDuration, ""))
        /\ returns' = Append(returns, RetURL(r))
        /\ loginURL' = r.val
        /\ IF r.err # NoError
           THEN /\ result' = Errorf("failed to build console URL", r.err)
                /\ pc' = "done"
                /\ UNCHANGED stdout
           ELSE /\ stdout' = Append(stdout, <<MsgOpening>>)
                /\ pc' = "open"
                /\ UNCHANGED result
    /\ UNCHANGED <<unitVars, prior>>
    /\ UNCHANGED <<flag, envProfile, goos, profile, identity, creds, execCalls, stderr>>

\* Fault variant: an unknown platform falls back to xdg-open
openCommand_Fallback(os) ==
    CASE os = "darwin" -> "open"
      [] os = "windows" -> "rundll32"
      [] OTHER -> "xdg-open"

\* openBrowser: the command of the platform ("" for an unsupported platform)
openCommand(os) ==
    CASE os = "darwin" -> "open"
      [] os = "linux" -> "xdg-open"
      [] os = "windows" -> "rundll32"
      [] OTHER -> ""

\* openBrowser: the arguments of the command
openArgs(os, targetURL) ==
    (IF os = "windows" THEN <<"url.dll,FileProtocolHandler">> ELSE << >>) \o <<targetURL>>

\* openBrowser: the error returned, given what executor.Start would return
openBrowser(os, startErr) ==
    IF openCommand(os) = "" THEN Errorf("unsupported platform", NewError(os)) ELSE startErr

\* Fault variant: the error of deps.open is wrapped like the other stages' errors
open_Wrapped ==
    /\ pc = "open"
    /\ \E startErr \in ExecResponses :
        /\ execCalls' = IF openCommand(goos) = ""
                        THEN execCalls
                        ELSE Append(execCalls,
                                    ExecCall("start", openCommand(goos), openArgs(goos, loginURL), startErr))
        /\ calls' = Append(calls, Call("open", "", ZeroCredentials, 0, loginURL))
        /\ returns' = Append(returns, RetError(openBrowser(goos, startErr)))
        /\ result' = IF openBrowser(goos, startErr) # NoError
                     THEN Errorf("failed to open browser", openBrowser(goos, startErr))
                     ELSE NoError
        /\ pc' = "done"
    /\ UNCHANGED <<unitVars, prior>>
    /\ UNCHANGED <<flag, envProfile, goos, profile, identity, creds, loginURL, stdout, stderr>>

\* return deps.open(loginURL)
\* deps.open is openBrowser (defaultRunDeps)
open ==
    /\ pc = "open"
    /\ \E startErr \in ExecResponses :
        /\ execCalls' = IF openCommand(goos) = ""
                        THEN execCalls
                        ELSE Append(execCalls,
                                    ExecCall("start", openCommand(goos), openArgs(goos, loginURL), startErr))
        /\ calls' = Append(calls, Call("open", "", ZeroCredentials, 0, loginURL))
        /\ returns' = Append(returns, RetError(openBrowser(goos, startErr)))
        /\ result' = openBrowser(goos, startErr)
        /\ pc' = "done"
    /\ UNCHANGED <<unitVars, prior>>
    /\ UNCHANGED <<flag, envProfile, goos, profile, identity, creds, loginURL, stdout, stderr>>

Next ==
    \/ RunE
    \/ GetCallerIdentity
    \/ login
    \/ GetCallerIdentityRetry
    \/ RetrieveCredentials
    \/ GetSessionToken
    \/ BuildConsoleURL
    \/ open

Spec == Init /\ [][Next]_vars

\* ------------------------------------------------------------------------
\* Properties of one run of the workflow

\* The positions in calls of the calls of one collaborator
Indices(op) == {i \in 1..Len(calls) : calls[i].op = op}
Count(op) == Cardinality(Indices(op))

\* The call calls[i] returned an error
Failed(i) == returns[i].err # NoError

\* The executor calls of one method
ExecIndices(method) == {k \in 1..Len(execCalls) : execCalls[k].method = method}

\* C1: identity validation retries exactly once.  login is invoked at most
\* once, and only as the second call, after a failed first GetCallerIdentity;
\* when the run is over, login was invoked iff the first GetCallerIdentity
\* failed, and GetCallerIdentity was invoked once (first call succeeded, or
\* login failed) or twice (first call failed and login succeeded), never more.
C1_RetryExactlyOnce ==
    /\ Count("login") <= 1
    /\ Count("GetCallerIdentity") <= 2
    /\ \A i \in Indices("login") :
          i = 2 /\ calls[1].op = "GetCallerIdentity" /\ Failed(1)
    /\ pc = "done" =>
          /\ calls[1].op = "GetCallerIdentity"
          /\ (Count("login") = 1 <=> Failed(1))
          /\ (~Failed(1) => Count("GetCallerIdentity") = 1)
          /\ (Failed(1) /\ ~Failed(2) => Count("GetCallerIdentity") = 2)
          /\ (Failed(1) /\ Failed(2) => Count("GetCallerIdentity") = 1)

\* A finished run in which the first validation failed, login succeeded and
\* the second validation was made
C1_Witness ==
    /\ pc = "done"
    /\ Count("login") = 1
    /\ Count("GetCallerIdentity") = 2
    /\ Failed(1) /\ ~Failed(2)

\* C1 also has a run where login fails and validation is not retried
C1_WitnessLoginFails ==
    pc = "done" /\ Count("login") = 1 /\ Failed(2) /\ Count("GetCallerIdentity") = 1

\* The calls whose failure ends the run: every call but the first
\* GetCallerIdentity (whose failure starts the login) and open (the last call)
EndsRun(i) ==
    \/ calls[i].op \in {"login", "RetrieveCredentials", "GetSessionToken", "BuildConsoleURL"}
    \/ calls[i].op = "GetCallerIdentity" /\ i > 1

\* C2: early return on any failure.  Once login, the second GetCallerIdentity,
\* RetrieveCredentials, GetSessionToken or BuildConsoleURL has returned an
\* error, that call is the last collaborator call of the run, the run is over
\* and its result is a non-nil error.
C2_EarlyReturn ==
    \A i \in 1..Len(calls) :
        (EndsRun(i) /\ Failed(i)) =>
            /\ i = Len(calls)
            /\ pc = "done"
            /\ result # NoError

\* A run ended by the failure of GetSessionToken
C2_Witness ==
    /\ Len(calls) > 0
    /\ calls[Len(calls)].op = "GetSessionToken"
    /\ Failed(Len(calls))

\* The message prefix of each stage
StagePrefix(i) ==
    CASE calls[i].op = "login" -> "SSO login failed"
      [] calls[i].op = "GetCallerIdentity" -> "credentials still invalid after SSO login"
      [] calls[i].op = "RetrieveCredentials" -> "failed to retrieve credentials"
      [] calls[i].op = "GetSessionToken" -> "failed to get temporary credentials"
      [] calls[i].op = "BuildConsoleURL" -> "failed to build console URL"

\* C3: the error returned identifies the failing stage and wraps its cause:
\* when one of the five stages fails, the result is the stage's prefix
\* followed by the error that stage returned; and the error of a failed first
\* GetCallerIdentity is never the result.
C3_StageErrors ==
    /\ \A i \in 1..Len(calls) :
          (EndsRun(i) /\ Failed(i)) => result = <<StagePrefix(i)>> \o returns[i].err
    /\ (Len(calls) > 0 /\ Failed(1)) => result # returns[1].err

\* A run ended by the second GetCallerIdentity, after a first failure with
\* another error
C3_Witness ==
    /\ pc = "done"
    /\ result = <<"credentials still invalid after SSO login", "expired token">>
    /\ returns[1].err = <<"failed to load AWS config">>

\* C4: GetSessionToken is invoked exactly once after RetrieveCredentials
\* returned credentials with an empty SessionToken, not at all after it
\* returned a non-empty one, and never before RetrieveCredentials succeeded.
C4_UpgradeOnlyWhenNoToken ==
    /\ Count("GetSessionToken") <= 1
    /\ \A i \in Indices("GetSessionToken") :
          /\ i > 1
          /\ calls[i - 1].op = "RetrieveCredentials"
          /\ ~Failed(i - 1)
          /\ returns[i - 1].creds.SessionToken = ""
    /\ \A j \in Indices("RetrieveCredentials") :
          ~Failed(j) =>
              IF returns[j].creds.SessionToken = ""
              THEN pc # "GetSessionToken" =>
                      (Count("GetSessionToken") = 1 /\ calls[j + 1].op = "GetSessionToken")
              ELSE Count("GetSessionToken") = 0

\* A finished run in which long-lived credentials were upgraded
C4_Witness ==
    /\ pc = "done"
    /\ Count("GetSessionToken") = 1
    /\ \E j \in Indices("RetrieveCredentials") : returns[j].creds.AccessKeyID = "AKIA_LONG"

\* A finished run in which the retrieved credentials already had a token
C4_WitnessNoUpgrade ==
    /\ pc = "done"
    /\ Count("GetSessionToken") = 0
    /\ \E j \in Indices("RetrieveCredentials") : returns[j].creds.SessionToken = "token"

\* C5: BuildConsoleURL receives the credentials GetSessionToken returned when
\* the retrieved SessionToken was empty, and the retrieved credentials
\* otherwise; after an upgrade it never receives the retrieved credentials.
C5_CredentialsPassed ==
    \A i \in Indices("BuildConsoleURL") :
        \E j \in Indices("RetrieveCredentials") :
            /\ j < i
            /\ ~Failed(j)
            /\ IF returns[j].creds.SessionToken = ""
               THEN /\ i = j + 2
                    /\ calls[j + 1].op = "GetSessionToken"
                    /\ calls[i].creds = returns[j + 1].creds
                    /\ calls[i].creds # returns[j].creds
               ELSE /\ i = j + 1
                    /\ calls[i].creds = returns[j].creds

\* BuildConsoleURL was called with upgraded credentials
C5_Witness ==
    \E i \in Indices("BuildConsoleURL") :
        /\ calls[i].creds.AccessKeyID = "AKIA_TEMP"
        /\ calls[i - 1].op = "GetSessionToken"

\* BuildConsoleURL was called with the retrieved credentials
C5_WitnessNoUpgrade ==
    \E i \in Indices("BuildConsoleURL") :
        /\ calls[i].creds.AccessKeyID = "ASIA_SSO"
        /\ calls[i - 1].op = "RetrieveCredentials"

\* C6: the credentials passed to BuildConsoleURL always have a non-empty
\* SessionToken.
C6_AlwaysTemporary ==
    \A i \in Indices("BuildConsoleURL") : calls[i].creds.SessionToken # ""

\* C7: open is invoked at most once, only directly after BuildConsoleURL
\* returned without error, and with the URL BuildConsoleURL returned; when no
\* BuildConsoleURL call succeeded, open is never invoked.
C7_OpenOnlyBuiltURL ==
    /\ Count("open") <= 1
    /\ \A i \in Indices("open") :
          /\ i > 1
          /\ calls[i - 1].op = "BuildConsoleURL"
          /\ ~Failed(i - 1)
          /\ calls[i].url = returns[i - 1].url
    /\ (\A j \in Indices("BuildConsoleURL") : Failed(j)) => Count("open") = 0

\* The browser was opened with one of the URLs
C7_Witness ==
    \E i \in Indices("open") : calls[i].url = "https://example.com/federated"

\* A run ended by BuildConsoleURL's failure
C7_WitnessBuildFails ==
    pc = "done" /\ \E j \in Indices("BuildConsoleURL") : Failed(j)

\* C8: the run returns nil iff open was invoked and returned nil; the error
\* open returns is the result as it is.
C8_ResultOfOpen ==
    pc = "done" =>
        /\ result = NoError <=> \E i \in Indices("open") : ~Failed(i)
        /\ \A i \in Indices("open") : result = returns[i].err

\* A run in which open failed
C8_Witness ==
    pc = "done" /\ \E i \in Indices("open") : returns[i].err = <<"exec failed">>

\* A run in which open succeeded
C8_WitnessNil ==
    pc = "done" /\ result = NoError /\ Count("open") = 1

\* C9: the profile handed to the runner is the flag's value when non-empty,
\* otherwise the value of AWS_PROFILE, and "" when both are empty.
C9_ProfileResolution ==
    pc # "RunE" =>
        /\ flag # "" => profile = flag
        /\ flag = "" => profile = envProfile
        /\ (flag = "" /\ envProfile = "") => profile = ""
        /\ \A i \in Indices("GetCallerIdentity") : calls[i].profile = profile

\* The runner was started with the flag's value although AWS_PROFILE is set
C9_Witness ==
    /\ pc # "RunE"
    /\ flag = "flag-profile"
    /\ envProfile = "env-profile"
    /\ Len(calls) > 0

\* The runner was started with the value of AWS_PROFILE
C9_WitnessEnv ==
    pc # "RunE" /\ flag = "" /\ envProfile = "env-profile" /\ profile = "env-profile"

\* C10: ssoLogin makes exactly one Run call of 'aws', with ['sso','login'] for
\* the empty profile and ['sso','login','--profile',profile] otherwise, makes
\* no Start call, and returns what Run returned.
C10_SSOLogin ==
    /\ Cardinality(ExecIndices("run")) = Count("login")
    /\ \A i \in Indices("login") :
          /\ \A k \in ExecIndices("run") :
                /\ execCalls[k].name = "aws"
                /\ execCalls[k].args =
                      IF calls[i].profile = ""
                      THEN <<"sso", "login">>
                      ELSE <<"sso", "login", "--profile", calls[i].profile>>
                /\ returns[i].err = execCalls[k].ret
          /\ i = Len(calls) => ExecIndices("start") = {}
    /\ Cardinality(ExecIndices("start")) <= Count("open")

\* ssoLogin ran with the empty profile and the executor failed
C10_Witness ==
    \E i \in Indices("login") :
        /\ calls[i].profile = ""
        /\ execCalls[1].args = <<"sso", "login">>
        /\ returns[i].err = <<"exec failed">>

\* ssoLogin ran with a profile and the executor succeeded
C10_WitnessProfile ==
    \E i \in Indices("login") :
        /\ calls[i].profile = "flag-profile"
        /\ Len(execCalls[1].args) = 4
        /\ returns[i].err = NoError

\* C11: openBrowser starts 'open' [url] on darwin, 'xdg-open' [url] on linux
\* and 'rundll32' ['url.dll,FileProtocolHandler', url] on windows, with exactly
\* one Start call whose last argument is the URL and whose error is returned
\* unchanged; on any other platform it returns 'unsupported platform: <goos>'
\* and makes no executor call.
C11_OpenBrowser ==
    /\ Cardinality(ExecIndices("start")) <= Count("open")
    /\ \A i \in Indices("open") :
          IF goos \in {"darwin", "linux", "windows"}
          THEN /\ Cardinality(ExecIndices("start")) = 1
               /\ \A k \in ExecIndices("start") :
                     /\ k = Len(execCalls)
                     /\ goos = "darwin" =>
                           execCalls[k].name = "open" /\ execCalls[k].args = <<calls[i].url>>
                     /\ goos = "linux" =>
                           execCalls[k].name = "xdg-open" /\ execCalls[k].args = <<calls[i].url>>
                     /\ goos = "windows" =>
                           /\ execCalls[k].name = "rundll32"
                           /\ execCalls[k].args = <<"url.dll,FileProtocolHandler", calls[i].url>>
                     /\ execCalls[k].args[Len(execCalls[k].args)] = calls[i].url
                     /\ returns[i].err = execCalls[k].ret
          ELSE /\ ExecIndices("start") = {}
               /\ Len(execCalls) = Count("login")
               /\ returns[i].err = <<"unsupported platform", goos>>

\* The browser was started on windows and Start failed
C11_Witness ==
    \E i \in Indices("open") :
        /\ goos = "windows"
        /\ Len(execCalls[Len(execCalls)].args) = 2
        /\ returns[i].err = <<"exec failed">>

\* openBrowser was called on a platform it does not know
C11_WitnessUnsupported ==
    \E i \in Indices("open") : goos = "plan9" /\ returns[i].err # NoError

\* The positions in stdout of the 'Authenticated as: <arn>' lines
AuthenticatedLines == {k \in 1..Len(stdout) : stdout[k][1] = MsgAuthenticated}

\* A line was written to a stream
Written(stream, line) == \E k \in 1..Len(stream) : stream[k] = line

\* C16: the status messages follow the path taken.  The 'not valid' message
\* is on stderr iff the first GetCallerIdentity failed, and is there before
\* login is invoked; 'Authenticated as: <arn>' is on stdout iff a
\* GetCallerIdentity call succeeded, once, with the ARN that call returned,
\* and is there before RetrieveCredentials is invoked; the 'no session token'
\* message is on stdout iff RetrieveCredentials returned an empty SessionToken.
C16_StatusMessages ==
    /\ Written(stderr, <<MsgNotValid>>) <=> (Len(calls) >= 1 /\ Failed(1))
    /\ (pc = "login" \/ Count("login") > 0) => Written(stderr, <<MsgNotValid>>)
    /\ \A k \in 1..Len(stderr) : stderr[k] = <<MsgNotValid>>
    /\ Cardinality(AuthenticatedLines) <= 1
    /\ AuthenticatedLines # {} <=> \E i \in Indices("GetCallerIdentity") : ~Failed(i)
    /\ \A k \in AuthenticatedLines :
          \A i \in Indices("GetCallerIdentity") :
              ~Failed(i) => stdout[k] = <<MsgAuthenticated, returns[i].identity.Arn>>
    /\ (pc = "RetrieveCredentials" \/ Count("RetrieveCredentials") > 0) => AuthenticatedLines # {}
    /\ Written(stdout, <<MsgNoToken>>) <=>
          \E j \in Indices("RetrieveCredentials") :
              ~Failed(j) /\ returns[j].creds.SessionToken = ""

\* A run that logged in, was authenticated by the second call and upgraded
\* its credentials
C16_Witness ==
    /\ Written(stderr, <<MsgNotValid>>)
    /\ Written(stdout, <<MsgAuthenticated, "arn:role/admin">>)
    /\ Written(stdout, <<MsgNoToken>>)
    /\ Count("GetCallerIdentity") = 2

\* A finished run that authenticated at once with temporary credentials: the
\* 'Authenticated as' line is written, nothing about the login or the upgrade
C16_WitnessQuiet ==
    /\ pc = "done"
    /\ stderr = << >>
    /\ AuthenticatedLines # {}
    /\ ~Written(stdout, <<MsgNoToken>>)

\* ========================================================================
\* FederationClient (pkg/aws/federation.go), run on its own
\*
\* A string that is escaped or parsed is a sequence of symbols: a symbol is a
\* single character or a chunk of characters none of which is treated
\* specially by the escaping or by the parsing (letters, digits, '-', '_',
\* '.', '~'; for the endpoint, which is never escaped, the whole base URL).

\* Longest sign-in token of the model, in characters
MaxTokenLen == 2

\* Characters a sign-in token is made of
TokenChars == {"a", "&", "=", "+", "%", " ", "#", ";", "2", "5"}

Tokens == UNION {[1..n -> TokenChars] : n \in 0..MaxTokenLen}

\* defaultFederationURL and the console URLs a client is configured with
\* (defaultConsoleURL and one with a query and a fragment)
defaultFederationURL == <<"https://signin.aws.amazon.com/federation">>
defaultConsoleURL == <<"https", ":", "/", "/", "console.aws.amazon.com", "/">>
ConsoleURLs ==
    {defaultConsoleURL,
     <<"https", ":", "/", "/", "console.aws.amazon.com", "/", "ec2",
       "?", "region", "=", "us-east-1", "&", "x", "=", "a", " ", "b", "#", "top">>}

\* net/url: the %XX code of the characters QueryEscape escapes (space apart)
HexCode ==
    [c \in {"&", "=", "+", "%", "#", "?", ";", "/", ":"} |->
        CASE c = "&" -> <<"2", "6">>
          [] c = "=" -> <<"3", "D">>
          [] c = "+" -> <<"2", "B">>
          [] c = "%" -> <<"2", "5">>
          [] c = "#" -> <<"2", "3">>
          [] c = "?" -> <<"3", "F">>
          [] c = ";" -> <<"3", "B">>
          [] c = "/" -> <<"2", "F">>
          [] c = ":" -> <<"3", "A">>]

HexDigits == {"0", "1", "2", "3", "4", "5", "6", "7", "8", "9",
              "A", "B", "C", "D", "E", "F", "a", "b", "c", "d", "e", "f"}

\* Fault variant: the value is put into the URL as it is
QueryEscape_Raw(str) == str

\* url.QueryEscape
RECURSIVE QueryEscape(_)
QueryEscape(str) ==
    IF str = << >> THEN << >>
    ELSE LET c == Head(str)
             e == IF c = " " THEN <<"+">>
                  ELSE IF c \in DOMAIN HexCode THEN <<"%">> \o HexCode[c]
                  ELSE <<c>>
         IN e \o QueryEscape(Tail(str))

\* The character of a %XX code (a code the model has no character for is
\* kept as one symbol)
Unhex(h1, h2) ==
    IF <<h1, h2>> = <<"2", "0">> THEN " "
    ELSE IF \E c \in DOMAIN HexCode : HexCode[c] = <<h1, h2>>
    THEN CHOOSE c \in DOMAIN HexCode : HexCode[c] = <<h1, h2>>
    ELSE "%XX"

\* url.QueryUnescape: ok is FALSE for a '%' not followed by two hex digits
RECURSIVE QueryUnescape(_)
QueryUnescape(str) ==
    IF str = << >> THEN [ok |-> TRUE, val |-> << >>]
    ELSE IF Head(str) = "%"
    THEN IF Len(str) >= 3 /\ str[2] \in HexDigits /\ str[3] \in HexDigits
         THEN LET rest == QueryUnescape(SubSeq(str, 4, Len(str)))
              IN [ok |-> rest.ok, val |-> <<Unhex(str[2], str[3])>> \o rest.val]
         ELSE [ok |-> FALSE, val |-> << >>]
    ELSE LET rest == QueryUnescape(Tail(str))
         IN [ok |-> rest.ok,
             val |-> <<IF Head(str) = "+" THEN " " ELSE Head(str)>> \o rest.val]

\* strings.Index for one character: 0 when absent
IndexOf(str, c) ==
    IF \E i \in 1..Len(str) : str[i] = c
    THEN CHOOSE i \in 1..Len(str) : str[i] = c /\ \A j \in 1..(i - 1) : str[j] # c
    ELSE 0

\* strings.Split on one character
RECURSIVE Split(_, _)
Split(str, sep) ==
    IF IndexOf(str, sep) = 0 THEN <<str>>
    ELSE <<SubSeq(str, 1, IndexOf(str, sep) - 1)>>
         \o Split(SubSeq(str, IndexOf(str, sep) + 1, Len(str)), sep)

\* url.ParseQuery on its '&'-separated pieces: the key/value pairs in order.
\* An empty piece, a piece with ';' and a piece that does not unescape are
\* dropped.
RECURSIVE parseQuery(_)
parseQuery(pieces) ==
    IF pieces = << >> THEN << >>
    ELSE LET piece == Head(pieces)
             eq == IndexOf(piece, "=")
             key == IF eq = 0 THEN piece ELSE SubSeq(piece, 1, eq - 1)
             value == IF eq = 0 THEN << >> ELSE SubSeq(piece, eq + 1, Len(piece))
             k == QueryUnescape(key)
             v == QueryUnescape(value)
         IN (IF piece = << >> \/ IndexOf(piece, ";") # 0 \/ ~k.ok \/ ~v.ok
             THEN << >>
             ELSE <<[key |-> k.val, value |-> v.val]>>)
            \o parseQuery(Tail(pieces))

\* url.Parse(u).Query(): the fragment is cut off at the first '#', the query
\* is what follows the first '?'
Query(u) ==
    LET noFragment == IF IndexOf(u, "#") = 0 THEN u ELSE SubSeq(u, 1, IndexOf(u, "#") - 1)
        q == IndexOf(noFragment, "?")
        rawQuery == IF q = 0 THEN << >> ELSE SubSeq(noFragment, q + 1, Len(noFragment))
    IN parseQuery(Split(rawQuery, "&"))

\* url.Values.Get: the first value of the key, "" when there is none
Get(values, key) ==
    IF \E i \in 1..Len(values) : values[i].key = <<key>>
    THEN values[CHOOSE i \in 1..Len(values) :
                    values[i].key = <<key>> /\ \A j \in 1..(i - 1) : values[j].key # <<key>>].value
    ELSE << >>

\* The credentials BuildConsoleURL is called with
FedCredentials ==
    {[AccessKeyID |-> "AKIA_TEST", SecretAccessKey |-> "secret", SessionToken |-> "token"],
     [AccessKeyID |-> "AKIA_LONG", SecretAccessKey |-> "long-secret", SessionToken |-> ""]}

\* Status codes of the federation endpoint
Statuses == {200, 403, 500}

\* Response bodies: one that cannot be read to its end (io.ReadAll fails), one
\* that is not the JSON of an object with a string SigninToken, the JSON null
\* or an object without SigninToken, and an object with a SigninToken
Bodies ==
    {[kind |-> "unreadable", token |-> << >>],
     [kind |-> "invalid", token |-> << >>],
     [kind |-> "null", token |-> << >>]}
    \cup {[kind |-> "object", token |-> t] : t \in Tokens}

\* What client.Do returns: an error, or a response with a status and a body
HTTPResponses ==
    {[doErr |-> NewError("network error"), status |-> 0,
      body |-> [kind |-> "unreadable", token |-> << >>]]}
    \cup {[doErr |-> NoError, status |-> st, body |-> b] : st \in Statuses, b \in Bodies}

\* The GET request BuildConsoleURL builds, by its endpoint and query parameters
\* (Session is the JSON object of sessionId, sessionKey and sessionToken)
FederationRequest(in) ==
    [method |-> "GET",
     endpoint |-> defaultFederationURL,
     Action |-> "getSigninToken",
     SessionDuration |-> in.durationSeconds,
     Session |-> [sessionId |-> in.creds.AccessKeyID,
                  sessionKey |-> in.creds.SecretAccessKey,
                  sessionToken |-> in.creds.SessionToken]]

\* json.Unmarshal(body, &tokenResp): ok and tokenResp.SigninToken
UnmarshalToken(body) ==
    IF body.kind \in {"object", "null"}
    THEN [ok |-> TRUE, SigninToken |-> body.token]
    ELSE [ok |-> FALSE, SigninToken |-> << >>]

\* The login URL of a sign-in token
LoginURL(in, token) ==
    defaultFederationURL
    \o <<"?", "Action", "=", "login", "&", "Issuer", "=", "aws-console-cli", "&", "Destination", "=">>
    \o QueryEscape(in.consoleURL)
    \o <<"&", "SigninToken", "=">>
    \o QueryEscape(token)

\* Fault variant: the status of the response is not checked
FederationResult_NoStatusCheck(in, resp) ==
    IF resp.doErr # NoError
    THEN [url |-> << >>, err |-> Errorf("failed to request signin token", resp.doErr)]
    ELSE IF resp.body.kind = "unreadable"
    THEN [url |-> << >>, err |-> Errorf("failed to read federation response", NewError("unexpected EOF"))]
    ELSE IF ~UnmarshalToken(resp.body).ok
    THEN [url |-> << >>, err |-> Errorf("failed to parse signin token response", NewError("invalid character"))]
    ELSE IF UnmarshalToken(resp.body).SigninToken = << >>
    THEN [url |-> << >>, err |-> NewError("received empty signin token from federation endpoint")]
    ELSE [url |-> LoginURL(in, UnmarshalToken(resp.body).SigninToken), err |-> NoError]

\* Fault variant: the body is parsed before the status is checked
FederationResult_ParsesFirst(in, resp) ==
    IF resp.doErr # NoError
    THEN [url |-> << >>, err |-> Errorf("failed to request signin token", resp.doErr)]
    ELSE IF resp.body.kind = "unreadable"
    THEN [url |-> << >>, err |-> Errorf("failed to read federation response", NewError("unexpected EOF"))]
    ELSE IF ~UnmarshalToken(resp.body).ok
    THEN [url |-> << >>, err |-> Errorf("failed to parse signin token response", NewError("invalid character"))]
    ELSE IF resp.status # 200
    THEN [url |-> << >>, err |-> <<"federation endpoint returned HTTP", ToString(resp.status)>>]
    ELSE IF UnmarshalToken(resp.body).SigninToken = << >>
    THEN [url |-> << >>, err |-> NewError("received empty signin token from federation endpoint")]
    ELSE [url |-> LoginURL(in, UnmarshalToken(resp.body).SigninToken), err |-> NoError]

\* BuildConsoleURL from the response of client.Do on: what it returns.
\* (The message of the HTTP error continues with the body text.)
FederationResult(in, resp) ==
    IF resp.doErr # NoError
    THEN [url |-> << >>, err |-> Errorf("failed to request signin token", resp.doErr)]
    ELSE IF resp.body.kind = "unreadable"
    THEN [url |-> << >>, err |-> Errorf("failed to read federation response", NewError("unexpected EOF"))]
    ELSE IF resp.status # 200
    THEN [url |-> << >>, err |-> <<"federation endpoint returned HTTP", ToString(resp.status)>>]
    ELSE IF ~UnmarshalToken(resp.body).ok
    THEN [url |-> << >>, err |-> Errorf("failed to parse signin token response", NewError("invalid character"))]
    ELSE IF UnmarshalToken(resp.body).SigninToken = << >>
    THEN [url |-> << >>, err |-> NewError("received empty signin token from federation endpoint")]
    ELSE [url |-> LoginURL(in, UnmarshalToken(resp.body).SigninToken), err |-> NoError]

FedInit ==
    /\ fedPc = "call"
    /\ fedIn \in [creds : FedCredentials, durationSeconds : {3600, sessionDuration},
                  consoleURL : ConsoleURLs]
    /\ fedRequests = << >>
    /\ fedOut = << >>
    /\ WorkflowIdle
    /\ SDKIdle
    /\ ReleaseIdle
    /\ NotesIdle

\* Fault variant: the request is sent a second time after a transport error
FederationBuildConsoleURL_Retries ==
    /\ fedPc = "call"
    /\ \E resp \in HTTPResponses :
        /\ fedRequests' =
              IF resp.doErr # NoError
              THEN fedRequests \o <<[request |-> FederationRequest(fedIn), response |-> resp],
                                    [request |-> FederationRequest(fedIn), response |-> resp]>>
              ELSE Append(fedRequests, [request |-> FederationRequest(fedIn), response |-> resp])
        /\ fedOut' = FederationResult(fedIn, resp)
    /\ fedPc' = "done"
    /\ UNCHANGED <<fedIn, workflowVars, notesVars, sdkVars, relVars>>

\* func (f *FederationClient) BuildConsoleURL(ctx, creds, durationSeconds)
FederationBuildConsoleURL ==
    /\ fedPc = "call"
    /\ \E resp \in HTTPResponses :
        /\ fedRequests' = Append(fedRequests, [request |-> FederationRequest(fedIn), response |-> resp])
        /\ fedOut' = FederationResult(fedIn, resp)
    /\ fedPc' = "done"
    /\ UNCHANGED <<fedIn, workflowVars, notesVars, sdkVars, relVars>>

FedNext == FederationBuildConsoleURL

FedSpec == FedInit /\ [][FedNext]_vars

\* The response the finished call got
FedResponse == fedRequests[Len(fedRequests)].response

\* The body of the response was read and is JSON that tokenResp accepts
FedBodyParses == FedResponse.body.kind \in {"object", "null"}

\* C12 as stated: success iff the request succeeded with status 200 and a
\* parsable body with a non-empty SigninToken; a transport error gives 'failed
\* to request signin token', a non-200 status 'HTTP <status>', an unparsable
\* body (of a 200 response) 'failed to parse signin token response', an empty
\* SigninToken 'received empty signin token from federation endpoint'; every
\* error comes with the empty URL.
C12_ErrorsAsStated ==
    fedPc = "done" =>
        /\ (fedOut.url # << >> /\ fedOut.err = NoError) <=>
              /\ FedResponse.doErr = NoError
              /\ FedResponse.status = 200
              /\ FedBodyParses
              /\ FedResponse.body.token # << >>
        /\ FedResponse.doErr # NoError =>
              fedOut.err = <<"failed to request signin token">> \o FedResponse.doErr
        /\ (FedResponse.doErr = NoError /\ FedResponse.status # 200) =>
              fedOut.err = <<"federation endpoint returned HTTP", ToString(FedResponse.status)>>
        /\ (FedResponse.doErr = NoError /\ FedResponse.status = 200
            /\ FedResponse.body.kind = "invalid") =>
              fedOut.err[1] = "failed to parse signin token response"
        /\ (FedResponse.doErr = NoError /\ FedResponse.status = 200
            /\ FedBodyParses /\ FedResponse.body.token = << >>) =>
              fedOut.err = <<"received empty signin token from federation endpoint">>
        /\ fedOut.err # NoError => fedOut.url = << >>

\* C12 amended: as stated, but a response whose body cannot be read gives
\* 'failed to read federation response' whatever its status, and a non-200
\* status gives 'HTTP <status>' when the body could be read.
C12_Errors ==
    fedPc = "done" =>
        /\ (fedOut.url # << >> /\ fedOut.err = NoError) <=>
              /\ FedResponse.doErr = NoError
              /\ FedResponse.status = 200
              /\ FedBodyParses
              /\ FedResponse.body.token # << >>
        /\ FedResponse.doErr # NoError =>
              fedOut.err = <<"failed to request signin token">> \o FedResponse.doErr
        /\ (FedResponse.doErr = NoError /\ FedResponse.body.kind = "unreadable") =>
              fedOut.err[1] = "failed to read federation response"
        /\ (FedResponse.doErr = NoError /\ FedResponse.body.kind # "unreadable"
            /\ FedResponse.status # 200) =>
              fedOut.err = <<"federation endpoint returned HTTP", ToString(FedResponse.status)>>
        /\ (FedResponse.doErr = NoError /\ FedResponse.status = 200
            /\ FedResponse.body.kind = "invalid") =>
              fedOut.err[1] = "failed to parse signin token response"
        /\ (FedResponse.doErr = NoError /\ FedResponse.status = 200
            /\ FedBodyParses /\ FedResponse.body.token = << >>) =>
              fedOut.err = <<"received empty signin token from federation endpoint">>
        /\ fedOut.err # NoError => fedOut.url = << >>

\* A 403 response with a readable body that holds a sign-in token was refused
C12_Witness ==
    /\ fedPc = "done"
    /\ FedResponse.status = 403
    /\ FedResponse.body.kind = "object"
    /\ FedResponse.body.token # << >>
    /\ fedOut.err = <<"federation endpoint returned HTTP", "403">>

\* A 500 response whose body could not be read
C12_WitnessUnreadable ==
    /\ fedPc = "done"
    /\ FedResponse.status = 500
    /\ FedResponse.body.kind = "unreadable"
    /\ fedOut.err[1] = "failed to read federation response"

\* C13: on success the URL round-trips through URL query parsing: Action is
\* 'login', SigninToken is the received token character for character, and
\* Destination is the configured console URL.
C13_URLRoundTrip ==
    (fedPc = "done" /\ fedOut.err = NoError) =>
        /\ Get(Query(fedOut.url), "Action") = <<"login">>
        /\ Get(Query(fedOut.url), "SigninToken") = FedResponse.body.token
        /\ Get(Query(fedOut.url), "Destination") = fedIn.consoleURL

\* A URL was built for a token made of '%' and '&'
C13_Witness ==
    /\ fedPc = "done"
    /\ fedOut.err = NoError
    /\ FedResponse.body.token = <<"%", "&">>
    /\ fedIn.consoleURL # defaultConsoleURL

\* A URL was built for a token with a space and a '+'
C13_WitnessSpace ==
    /\ fedPc = "done"
    /\ fedOut.err = NoError
    /\ FedResponse.body.token = <<" ", "+">>

\* ========================================================================
\* SDKService (pkg/aws/service.go), run on its own
\*
\* A *string of the SDK is << >> when nil and <<s>> when it points to s; the
\* same for the *types.Credentials of the GetSessionToken output.

Nil == << >>

\* awsv2.ToString
awsToString(ptr) == IF ptr = Nil THEN "" ELSE ptr[1]

\* Profiles and durations the operations are called with
SDKProfiles == {"", "dev-profile", "admin"}
SDKDurations == {900, sessionDuration}

\* What loader.LoadDefaultConfig returns: the error (the Config is opaque)
LoaderResponses ==
    {[err |-> e] : e \in {NoError, NewError("profile not found"), NewError("load failed")}}

\* What the STS client's GetCallerIdentity returns
STSIdentityResponses ==
    {[out |-> [Arn |-> a], err |-> NoError] :
        a \in {Nil, <<"arn:aws:iam::123456789012:user/test">>}}
    \cup {[out |-> Nil, err |-> NewError(e)] : e \in {"expired token", "sts failed"}}

\* What cfg.Credentials.Retrieve returns
ProviderResponses ==
    {[out |-> c, err |-> NoError] :
        c \in {[AccessKeyID |-> "AKIA_TEST", SecretAccessKey |-> "secret", SessionToken |-> "token"],
               [AccessKeyID |-> "AKIA_LONG", SecretAccessKey |-> "long-secret", SessionToken |-> ""]}}
    \cup {[out |-> ZeroCredentials, err |-> NewError(e)] : e \in {"retrieve failed", "no provider"}}

\* What the STS client's GetSessionToken returns
STSSessionTokenResponses ==
    {[out |-> [Credentials |-> Nil], err |-> NoError]}
    \cup {[out |-> [Credentials |-> <<[AccessKeyId |-> k, SecretAccessKey |-> sk, SessionToken |-> t]>>],
           err |-> NoError] :
            k \in {Nil, <<"ASIA_TEMP">>}, sk \in {Nil, <<"temp-secret">>}, t \in {Nil, <<"temp-token">>}}
    \cup {[out |-> Nil, err |-> NewError(e)] : e \in {"access denied", "sts failed"}}

\* A recorded call of the service to one of its collaborators, with its
\* arguments (the profile options, the duration) and what it returned
SDKCall(callee, opts, duration, resp) ==
    [callee |-> callee, opts |-> opts, duration |-> duration, resp |-> resp]

\* What an operation returned
SDKReturn(op, id, c, e) == [op |-> op, identity |-> id, creds |-> c, err |-> e]

\* Fault variant: the loader's error is returned as it is
loadConfig_Unwrapped(lr) == lr.err

\* loadConfig: the error returned for the loader's response
loadConfig(lr) ==
    IF lr.err # NoError THEN Errorf("failed to load AWS config", lr.err) ELSE NoError

\* loadConfig: the call of the loader, with the profile option for a profile
loadConfigCall(prof, lr) ==
    SDKCall("LoadDefaultConfig", IF prof # "" THEN <<prof>> ELSE << >>, 0, lr)

SDKInit ==
    /\ sdkPc = "call"
    /\ sdkIn \in [profile : SDKProfiles, durationSeconds : SDKDurations]
    /\ sdkCalls = << >>
    /\ sdkOut = << >>
    /\ WorkflowIdle
    /\ FedIdle
    /\ ReleaseIdle
    /\ NotesIdle

\* func (s *SDKService) GetCallerIdentity(ctx, profile)
SDKGetCallerIdentity ==
    /\ sdkPc = "call"
    /\ \E lr \in LoaderResponses, sr \in STSIdentityResponses :
        IF loadConfig(lr) # NoError
        THEN /\ sdkCalls' = <<loadConfigCall(sdkIn.profile, lr)>>
             /\ sdkOut' = SDKReturn("GetCallerIdentity", ZeroIdentity, ZeroCredentials, loadConfig(lr))
        ELSE /\ sdkCalls' = <<loadConfigCall(sdkIn.profile, lr),
                              SDKCall("NewFromConfig", << >>, 0, [err |-> NoError]),
                              SDKCall("sts.GetCallerIdentity", << >>, 0, sr)>>
             /\ sdkOut' = IF sr.err # NoError
                          THEN SDKReturn("GetCallerIdentity", ZeroIdentity, ZeroCredentials, sr.err)
                          ELSE SDKReturn("GetCallerIdentity", [Arn |-> awsToString(sr.out.Arn)],
                                         ZeroCredentials, NoError)
    /\ sdkPc' = "done"
    /\ UNCHANGED <<sdkIn, workflowVars, notesVars, fedVars, relVars>>

\* func (s *SDKService) RetrieveCredentials(ctx, profile)
SDKRetrieveCredentials ==
    /\ sdkPc = "call"
    /\ \E lr \in LoaderResponses, pr \in ProviderResponses :
        IF loadConfig(lr) # NoError
        THEN /\ sdkCalls' = <<loadConfigCall(sdkIn.profile, lr)>>
             /\ sdkOut' = SDKReturn("RetrieveCredentials", ZeroIdentity, ZeroCredentials, loadConfig(lr))
        ELSE /\ sdkCalls' = <<loadConfigCall(sdkIn.profile, lr),
                              SDKCall("Credentials.Retrieve", << >>, 0, pr)>>
             /\ sdkOut' = IF pr.err # NoError
                          THEN SDKReturn("RetrieveCredentials", ZeroIdentity, ZeroCredentials, pr.err)
                          ELSE SDKReturn("RetrieveCredentials", ZeroIdentity,
                                         [AccessKeyID |-> pr.out.AccessKeyID,
                                          SecretAccessKey |-> pr.out.SecretAccessKey,
                                          SessionToken |-> pr.out.SessionToken],
                                         NoError)
    /\ sdkPc' = "done"
    /\ UNCHANGED <<sdkIn, workflowVars, notesVars, fedVars, relVars>>

\* Fault variant: an output without credentials is not checked for and gives
\* zero-value credentials without an error
sessionTokenResult_NoNilCheck(sr) ==
    IF sr.out.Credentials = Nil
    THEN SDKReturn("GetSessionToken", ZeroIdentity, ZeroCredentials, NoError)
    ELSE SDKReturn("GetSessionToken", ZeroIdentity,
                   [AccessKeyID |-> awsToString(sr.out.Credentials[1].AccessKeyId),
                    SecretAccessKey |-> awsToString(sr.out.Credentials[1].SecretAccessKey),
                    SessionToken |-> awsToString(sr.out.Credentials[1].SessionToken)],
                   NoError)

\* GetSessionToken: what is returned for a successful STS output
sessionTokenResult(sr) ==
    IF sr.out.Credentials = Nil
    THEN SDKReturn("GetSessionToken", ZeroIdentity, ZeroCredentials,
                   NewError("STS GetSessionToken returned empty credentials"))
    ELSE SDKReturn("GetSessionToken", ZeroIdentity,
                   [AccessKeyID |-> awsToString(sr.out.Credentials[1].AccessKeyId),
                    SecretAccessKey |-> awsToString(sr.out.Credentials[1].SecretAccessKey),
                    SessionToken |-> awsToString(sr.out.Credentials[1].SessionToken)],
                   NoError)

\* func (s *SDKService) GetSessionToken(ctx, profile, durationSeconds)
SDKGetSessionToken ==
    /\ sdkPc = "call"
    /\ \E lr \in LoaderResponses, sr \in STSSessionTokenResponses :
        IF loadConfig(lr) # NoError
        THEN /\ sdkCalls' = <<loadConfigCall(sdkIn.profile, lr)>>
             /\ sdkOut' = SDKReturn("GetSessionToken", ZeroIdentity, ZeroCredentials, loadConfig(lr))
        ELSE /\ sdkCalls' = <<loadConfigCall(sdkIn.profile, lr),
                              SDKCall("NewFromConfig", << >>, 0, [err |-> NoError]),
                              SDKCall("sts.GetSessionToken", << >>, sdkIn.durationSeconds, sr)>>
             /\ sdkOut' = IF sr.err # NoError
                          THEN SDKReturn("GetSessionToken", ZeroIdentity, ZeroCredentials, sr.err)
                          ELSE sessionTokenResult(sr)
    /\ sdkPc' = "done"
    /\ UNCHANGED <<sdkIn, workflowVars, notesVars, fedVars, relVars>>

SDKNext ==
    \/ SDKGetCallerIdentity
    \/ SDKRetrieveCredentials
    \/ SDKGetSessionToken

SDKSpec == SDKInit /\ [][SDKNext]_vars

\* The calls an operation made to one collaborator
SDKCallsTo(callee) == {i \in 1..Len(sdkCalls) : sdkCalls[i].callee = callee}

\* The operation returned zero-value results
SDKZeroResult == sdkOut.identity = ZeroIdentity /\ sdkOut.creds = ZeroCredentials

\* C14: in each of the three operations, a failure to load the config gives
\* zero-value results and 'failed to load AWS config: <cause>', and neither
\* the STS client factory, STS nor the credentials provider is called; when
\* the config loads and the STS call or the retrieval fails, that error is
\* returned unchanged with zero-value results.
C14_SDKErrors ==
    sdkPc = "done" =>
        /\ SDKCallsTo("LoadDefaultConfig") = {1}
        /\ sdkCalls[1].opts = (IF sdkIn.profile = "" THEN << >> ELSE <<sdkIn.profile>>)
        /\ sdkCalls[1].resp.err # NoError =>
              /\ SDKZeroResult
              /\ sdkOut.err = <<"failed to load AWS config">> \o sdkCalls[1].resp.err
              /\ Len(sdkCalls) = 1
        /\ sdkCalls[1].resp.err = NoError =>
              /\ Len(sdkCalls) > 1
              /\ sdkCalls[Len(sdkCalls)].callee =
                    CASE sdkOut.op = "GetCallerIdentity" -> "sts.GetCallerIdentity"
                      [] sdkOut.op = "RetrieveCredentials" -> "Credentials.Retrieve"
                      [] sdkOut.op = "GetSessionToken" -> "sts.GetSessionToken"
              /\ sdkCalls[Len(sdkCalls)].resp.err # NoError =>
                    /\ SDKZeroResult
                    /\ sdkOut.err = sdkCalls[Len(sdkCalls)].resp.err

\* RetrieveCredentials with a profile: the config loaded and the provider failed
C14_Witness ==
    /\ sdkPc = "done"
    /\ sdkOut.op = "RetrieveCredentials"
    /\ sdkIn.profile = "dev-profile"
    /\ Len(sdkCalls) = 2
    /\ sdkOut.err = <<"retrieve failed">>

\* GetSessionToken: the config did not load
C14_WitnessLoad ==
    /\ sdkPc = "done"
    /\ sdkOut.op = "GetSessionToken"
    /\ sdkOut.err = <<"failed to load AWS config", "profile not found">>

\* GetCallerIdentity: the config loaded and STS failed
C14_WitnessSTS ==
    /\ sdkPc = "done"
    /\ sdkOut.op = "GetCallerIdentity"
    /\ sdkOut.err = <<"expired token">>

\* The last call of a finished GetSessionToken whose STS call succeeded
STSOutput == sdkCalls[Len(sdkCalls)].resp.out

\* C15: GetSessionToken returns 'STS GetSessionToken returned empty
\* credentials' and zero-value Credentials when STS succeeds without a
\* credentials object; otherwise on success its three fields are the access
\* key id, secret access key and session token of the STS output ("" for a
\* field that is nil).
C15_SessionTokenResult ==
    (/\ sdkPc = "done"
     /\ sdkOut.op = "GetSessionToken"
     /\ sdkCalls[Len(sdkCalls)].callee = "sts.GetSessionToken"
     /\ sdkCalls[Len(sdkCalls)].resp.err = NoError) =>
        IF STSOutput.Credentials = << >>
        THEN /\ sdkOut.err = <<"STS GetSessionToken returned empty credentials">>
             /\ sdkOut.creds = ZeroCredentials
        ELSE /\ sdkOut.err = NoError
             /\ \A c \in {STSOutput.Credentials[1]} :
                   /\ c.AccessKeyId # << >> => <<sdkOut.creds.AccessKeyID>> = c.AccessKeyId
                   /\ c.AccessKeyId = << >> => sdkOut.creds.AccessKeyID = ""
                   /\ c.SecretAccessKey # << >> => <<sdkOut.creds.SecretAccessKey>> = c.SecretAccessKey
                   /\ c.SecretAccessKey = << >> => sdkOut.creds.SecretAccessKey = ""
                   /\ c.SessionToken # << >> => <<sdkOut.creds.SessionToken>> = c.SessionToken
                   /\ c.SessionToken = << >> => sdkOut.creds.SessionToken = ""

\* STS succeeded without a credentials object
C15_Witness ==
    /\ sdkPc = "done"
    /\ sdkOut.op = "GetSessionToken"
    /\ Len(sdkCalls) = 3
    /\ sdkCalls[3].resp.err = NoError
    /\ sdkCalls[3].resp.out.Credentials = << >>

\* STS succeeded with complete credentials
C15_WitnessComplete ==
    /\ sdkPc = "done"
    /\ sdkOut.op = "GetSessionToken"
    /\ sdkOut.creds =
          [AccessKeyID |-> "ASIA_TEMP", SecretAccessKey |-> "temp-secret", SessionToken |-> "temp-token"]

\* ========================================================================
\* scripts/release.sh, run on its own
\*
\* A tag name is a sequence of characters, an argument is a string, a line
\* of output is a tuple of its pieces.

\* The characters [0-9] of parse_semver's pattern
DigitChars == {"0", "1", "2", "3", "4", "5", "6", "7", "8", "9"}

DigitValue(c) == CHOOSE d \in 0..9 : ToString(d) = c

\* How the shell prints a number
RECURSIVE Decimal(_)
Decimal(n) == IF n < 10 THEN <<ToString(n)>> ELSE Decimal(n \div 10) \o <<ToString(n % 10)>>

\* The value of a digit string in a base
RECURSIVE ValueInBase(_, _)
ValueInBase(digits, base) ==
    IF digits = << >> THEN 0
    ELSE ValueInBase(SubSeq(digits, 1, Len(digits) - 1), base) * base
         + DigitValue(digits[Len(digits)])

\* The value of a digit string in $(( )): a constant with a leading 0 is
\* octal, and an 8 or a 9 in it is an error (-1)
shellValue(digits) ==
    IF Len(digits) > 1 /\ digits[1] = "0"
    THEN IF \E i \in 1..Len(digits) : digits[i] \in {"8", "9"}
         THEN -1
         ELSE ValueInBase(digits, 8)
    ELSE ValueInBase(digits, 10)

\* A tag name of three components
TagName(major, minor, patch) == <<"v">> \o major \o <<".">> \o minor \o <<".">> \o patch

\* latest_tag: what 'git describe --tags --abbrev=0' prints, or v0.0.0 when
\* it fails (no tag: << >>)
latest_tag(described) ==
    IF described = << >> THEN TagName(<<"0">>, <<"0">>, <<"0">>) ELSE described

\* parse_semver: the three components of a tag that matches
\* ^v([0-9]+)\.([0-9]+)\.([0-9]+)$, or << >> when it does not
parse_semver(tag) ==
    IF /\ Len(tag) > 0
       /\ tag[1] = "v"
       /\ Len(Split(Tail(tag), ".")) = 3
       /\ \A part \in {Split(Tail(tag), ".")[i] : i \in 1..3} :
             Len(part) > 0 /\ \A i \in 1..Len(part) : part[i] \in DigitChars
    THEN Split(Tail(tag), ".")
    ELSE << >>

\* The result of the case on bump_type
Bumped(status, parts) == [status |-> status, parts |-> parts]

\* The case on bump_type: the new components ("ok"), "invalid" for a
\* component the shell cannot evaluate, "unknown" for another bump type
bump(bump_type, parts) ==
    CASE bump_type = "major" ->
            IF shellValue(parts[1]) < 0 THEN Bumped("invalid", parts)
            ELSE Bumped("ok", <<Decimal(shellValue(parts[1]) + 1), <<"0">>, <<"0">>>>)
      [] bump_type = "minor" ->
            IF shellValue(parts[2]) < 0 THEN Bumped("invalid", parts)
            ELSE Bumped("ok", <<parts[1], Decimal(shellValue(parts[2]) + 1), <<"0">>>>)
      [] bump_type = "bugfix" ->
            IF shellValue(parts[3]) < 0 THEN Bumped("invalid", parts)
            ELSE Bumped("ok", <<parts[1], parts[2], Decimal(shellValue(parts[3]) + 1)>>)
      [] OTHER -> Bumped("unknown", parts)

\* Fault variant: every answer is taken as a yes
accepted_Always(answer) == TRUE

\* confirm: the answers that are taken as a yes
accepted(answer) == answer \in {"y", "Y", "yes", "YES"}

\* What is typed at a prompt (end of input reads as the empty answer)
Answers == {"y", "Y", "yes", "YES", "Yes", "n", ""}

\* A line written to a stream
Line(stream, text) == [stream |-> stream, text |-> text]

\* usage, as one line
UsageLine == Line("stdout", <<"Usage:">>)

\* The locals of main
Locals(bump_type, message, do_push, assume_yes, current_tag, new_tag) ==
    [bump_type |-> bump_type, message |-> message, do_push |-> do_push,
     assume_yes |-> assume_yes, current_tag |-> current_tag, new_tag |-> new_tag]

\* The option loop of main: the options read from the arguments after the
\* bump type, the lines written, and the exit status when the loop exits
\* the script (-1 when it does not)
RECURSIVE parseOptions(_, _)
parseOptions(args, acc) ==
    IF args = << >> THEN acc
    ELSE CASE Head(args) \in {"-m", "--message"} ->
                IF Len(args) < 2
                THEN [acc EXCEPT !.status = 1,
                                 !.out = @ \o <<Line("stderr", <<"Error: ", Head(args), " requires a value.">>)>>]
                ELSE parseOptions(SubSeq(args, 3, Len(args)), [acc EXCEPT !.message = args[2]])
           [] Head(args) \in {"-p", "--push"} ->
                parseOptions(Tail(args), [acc EXCEPT !.do_push = TRUE])
           [] Head(args) \in {"-y", "--yes"} ->
                parseOptions(Tail(args), [acc EXCEPT !.assume_yes = TRUE])
           [] Head(args) \in {"-h", "--help"} ->
                [acc EXCEPT !.status = 0, !.out = @ \o <<UsageLine>>]
           [] OTHER ->
                [acc EXCEPT !.status = 1,
                            !.out = @ \o <<Line("stderr", <<"Error: unknown argument '", Head(args), "'.">>),
                                           UsageLine>>]

\* The options before the loop
NoOptions == [message |-> "", do_push |-> FALSE, assume_yes |-> FALSE, status |-> -1, out |-> << >>]

\* A tag of the repository
Tag(name, message, annotated) == [name |-> name, message |-> message, annotated |-> annotated]

\* Fault variant: the tag is created without -a and -m
newTag_Lightweight(name, message) == Tag(name, "", FALSE)

\* git tag -a "${new_tag}" -m "${message}"
newTag(name, message) == Tag(name, message, TRUE)

TagNames(tags) == {t.name : t \in tags}

\* Fault variant: a missing message is let through
messageMissing_Never(message) == FALSE

\* [[ -z "$message" ]]
messageMissing(message) == message = ""

\* The tags 'git describe' can print in the repositories of the model
DescribedTags ==
    {TagName(<<"1">>, <<"2">>, <<"3">>),
     TagName(<<"0">>, <<"9">>, <<"9">>),
     TagName(<<"1">>, <<"2">>, <<"0", "1", "0">>),
     TagName(<<"2", "0", "2", "4">>, <<"0", "8">>, <<"1">>),
     <<"v", "1", ".", "2">>,
     <<"1", ".", "2", ".", "3">>,
     <<"v", "1", ".", "2", ".", "3", "-", "r", "c">>,
     <<"v", "1", ".", ".", "3">>,
     <<"n", "i", "g", "h", "t", "l", "y">>}

\* The repositories the script is run in: none, one without a commit, one
\* without a tag, and one whose latest tag is described, with or without a
\* v1.2.4 next to it
Repositories ==
    {[inside |-> FALSE, head |-> FALSE, described |-> << >>, tags |-> {}],
     [inside |-> TRUE, head |-> FALSE, described |-> << >>, tags |-> {}],
     [inside |-> TRUE, head |-> TRUE, described |-> << >>, tags |-> {}]}
    \cup {[inside |-> TRUE, head |-> TRUE, described |-> t,
           tags |-> {Tag(t, "Release", TRUE)} \cup extra] :
            t \in DescribedTags,
            extra \in {{}, {Tag(TagName(<<"1">>, <<"2">>, <<"4">>), "Release v1.2.4", TRUE)}}}

\* The command lines of the model: a first argument, then a message option
\* and flags in either order
FirstArgs == {<< >>, <<"major">>, <<"minor">>, <<"bugfix">>, <<"patch">>, <<"--help">>}
MessageArgs ==
    {<< >>, <<"-m", "Release notes">>, <<"--message", "Release notes">>, <<"-m", "">>, <<"-m">>}
FlagArgs ==
    {<< >>, <<"--push">>, <<"-p">>, <<"--yes">>, <<"-y">>, <<"--push", "--yes">>, <<"-y", "-p">>,
     <<"--help">>, <<"--bogus">>, <<"--yes", "-h">>}
ArgLists ==
    {f \o m \o g : f \in FirstArgs, m \in MessageArgs, g \in FlagArgs}
    \cup {f \o g \o m : f \in FirstArgs, m \in MessageArgs, g \in FlagArgs}

\* What main has done when it exits or reaches the first prompt
Main(status, out, local) == [status |-> status, out |-> out, local |-> local]

\* main up to the summary (release.sh lines 49-149); status -1: still running
main(in, tags) ==
    LET none == Locals("", "", FALSE, FALSE, << >>, << >>) IN
    IF ~in.inside
    THEN Main(1, <<Line("stderr", <<"Error: must be run inside a git repository.">>)>>, none)
    ELSE IF in.args = << >>
    THEN Main(1, <<UsageLine>>, none)
    ELSE IF in.args[1] \in {"-h", "--help"}
    THEN Main(0, <<UsageLine>>, none)
    ELSE
    LET bump_type == in.args[1]
        opts == parseOptions(Tail(in.args), NoOptions)
        parsed == Locals(bump_type, opts.message, opts.do_push, opts.assume_yes, << >>, << >>)
        current_tag == latest_tag(in.described)
        parts == parse_semver(current_tag)
        bumped == bump(bump_type, parts)
        new_tag == TagName(bumped.parts[1], bumped.parts[2], bumped.parts[3])
        local == Locals(bump_type, opts.message, opts.do_push, opts.assume_yes, current_tag, new_tag)
    IN
    IF opts.status # -1
    THEN Main(opts.status, opts.out, parsed)
    ELSE IF messageMissing(opts.message)
    THEN Main(1, <<Line("stderr", <<"Error: release message is required.">>), UsageLine>>, parsed)
    ELSE IF parts = << >>
    THEN Main(1, <<Line("stderr", <<"Error: latest tag '", current_tag,
                                    "' is not semver in the form vMAJOR.MINOR.PATCH.">>)>>,
              [parsed EXCEPT !.current_tag = current_tag])
    ELSE IF bumped.status = "invalid"
    THEN Main(1, <<Line("stderr", <<"value too great for base">>)>>,
              [parsed EXCEPT !.current_tag = current_tag])
    ELSE IF bumped.status = "unknown"
    THEN Main(1, <<Line("stderr", <<"Error: bump type must be one of: major, minor, bugfix.">>),
                   UsageLine>>,
              [parsed EXCEPT !.current_tag = current_tag])
    ELSE IF ~in.head
    THEN Main(128, <<Line("stderr", <<"fatal: Needed a single revision">>)>>, local)
    ELSE IF new_tag \in TagNames(tags)
    THEN Main(1, <<Line("stderr", <<"Error: tag ", new_tag, " already exists.">>)>>, local)
    ELSE Main(-1,
              <<Line("stdout", <<"Current tag: ", current_tag>>),
                Line("stdout", <<"Next tag:    ", new_tag>>),
                Line("stdout", <<"Commit:      ", "HEAD">>),
                Line("stdout", <<"Message:     ", opts.message>>),
                Line("stdout", IF opts.do_push THEN <<"Push:        yes (origin ", new_tag, ")">>
                                                ELSE <<"Push:        no">>)>>,
              local)

\* A prompt and the answer it got
Prompt(prompt, tag, answer) == [prompt |-> prompt, tag |-> tag, answer |-> answer]

ReleaseInit ==
    /\ relPc = "main"
    /\ \E repo \in Repositories, args \in ArgLists :
        /\ relIn = [args |-> args, inside |-> repo.inside, head |-> repo.head,
                    described |-> repo.described, tags |-> repo.tags]
        /\ relTags = repo.tags
    /\ relLocal = << >>
    /\ relPushed = << >>
    /\ relPrompts = << >>
    /\ relOut = << >>
    /\ relStatus = -1
    /\ WorkflowIdle
    /\ FedIdle
    /\ SDKIdle
    /\ NotesIdle

\* main, from require_git_repo to the summary
ReleaseMain ==
    /\ relPc = "main"
    /\ relLocal' = main(relIn, relTags).local
    /\ relOut' = relOut \o main(relIn, relTags).out
    /\ relStatus' = main(relIn, relTags).status
    /\ relPc' = IF main(relIn, relTags).status # -1 THEN "exit"
                ELSE IF main(relIn, relTags).local.assume_yes THEN "tag"
                ELSE "confirmCreate"
    /\ UNCHANGED <<relIn, relTags, relPushed, relPrompts,
                   workflowVars, notesVars, fedVars, sdkVars>>

\* Fault variant: the tag is created whatever the answer to the prompt
ReleaseConfirmCreate_IgnoresAnswer ==
    /\ relPc = "confirmCreate"
    /\ \E answer \in Answers :
        /\ relPrompts' = Append(relPrompts, Prompt("Create annotated tag", relLocal.new_tag, answer))
        /\ relPc' = "tag"
        /\ UNCHANGED <<relOut, relStatus>>
    /\ UNCHANGED <<relIn, relLocal, relTags, relPushed, workflowVars, notesVars, fedVars, sdkVars>>

\* if ! confirm "Create annotated tag ${new_tag}?"
ReleaseConfirmCreate ==
    /\ relPc = "confirmCreate"
    /\ \E answer \in Answers :
        /\ relPrompts' = Append(relPrompts, Prompt("Create annotated tag", relLocal.new_tag, answer))
        /\ IF accepted(answer)
           THEN /\ relPc' = "tag"
                /\ UNCHANGED <<relOut, relStatus>>
           ELSE /\ relPc' = "exit"
                /\ relOut' = Append(relOut, Line("stdout", <<"Aborted.">>))
                /\ relStatus' = 1
    /\ UNCHANGED <<relIn, relLocal, relTags, relPushed, workflowVars, notesVars, fedVars, sdkVars>>

\* git tag -a, which may fail and end the script (set -e), and the line
\* after it
ReleaseCreateTag ==
    /\ relPc = "tag"
    /\ \E ok \in BOOLEAN :
        IF ok
        THEN /\ relTags' = relTags \cup {newTag(relLocal.new_tag, relLocal.message)}
             /\ relOut' = Append(relOut, Line("stdout", <<"Created tag: ", relLocal.new_tag>>))
             /\ relPc' = IF ~relLocal.do_push THEN "reminder"
                         ELSE IF relLocal.assume_yes THEN "push"
                         ELSE "confirmPush"
             /\ UNCHANGED relStatus
        ELSE /\ relPc' = "exit"
             /\ relStatus' = 128
             /\ relOut' = Append(relOut, Line("stderr", <<"fatal: git tag failed">>))
             /\ UNCHANGED relTags
    /\ UNCHANGED <<relIn, relLocal, relPushed, relPrompts,
                   workflowVars, notesVars, fedVars, sdkVars>>

\* if ! confirm "Push ${new_tag} to origin?"
ReleaseConfirmPush ==
    /\ relPc = "confirmPush"
    /\ \E answer \in Answers :
        /\ relPrompts' = Append(relPrompts, Prompt("Push to origin", relLocal.new_tag, answer))
        /\ IF accepted(answer)
           THEN /\ relPc' = "push"
                /\ UNCHANGED <<relOut, relStatus>>
           ELSE /\ relPc' = "exit"
                /\ relOut' = relOut \o
                      <<Line("stdout", <<"Tag created locally and not pushed.">>),
                        Line("stdout", <<"Push manually with: git push origin ", relLocal.new_tag>>)>>
                /\ relStatus' = 0
    /\ UNCHANGED <<relIn, relLocal, relTags, relPushed, workflowVars, notesVars, fedVars, sdkVars>>

\* git push origin, which may fail and end the script, and the line after it
ReleasePush ==
    /\ relPc = "push"
    /\ \E ok \in BOOLEAN :
        IF ok
        THEN /\ relPushed' = Append(relPushed, relLocal.new_tag)
             /\ relOut' = Append(relOut, Line("stdout", <<"Pushed tag: ", relLocal.new_tag>>))
             /\ relStatus' = 0
        ELSE /\ relStatus' = 128
             /\ relOut' = Append(relOut, Line("stderr", <<"fatal: git push failed">>))
             /\ UNCHANGED relPushed
    /\ relPc' = "exit"
    /\ UNCHANGED <<relIn, relLocal, relTags, relPrompts, workflowVars, notesVars, fedVars, sdkVars>>

\* The else branch of the push block
ReleaseReminder ==
    /\ relPc = "reminder"
    /\ relOut' = relOut \o
          <<Line("stdout", <<"Tag was created locally.">>),
            Line("stdout", <<"Push it with: git push origin ", relLocal.new_tag>>)>>
    /\ relStatus' = 0
    /\ relPc' = "exit"
    /\ UNCHANGED <<relIn, relLocal, relTags, relPushed, relPrompts,
                   workflowVars, notesVars, fedVars, sdkVars>>

ReleaseNext ==
    \/ ReleaseMain
    \/ ReleaseConfirmCreate
    \/ ReleaseCreateTag
    \/ ReleaseConfirmPush
    \/ ReleasePush
    \/ ReleaseReminder

ReleaseSpec == ReleaseInit /\ [][ReleaseNext]_vars

\* The tags the run has created
Created == relTags \ relIn.tags

Finished == relPc = "exit"

\* The command line holds a message option
HasMessageOption == \E i \in 1..Len(relIn.args) : relIn.args[i] \in {"-m", "--message"}

\* The command line is a bump type followed by nothing but the given flags
BumpWithFlags(flags) ==
    /\ Len(relIn.args) >= 1
    /\ relIn.args[1] \in {"major", "minor", "bugfix"}
    /\ \A i \in 2..Len(relIn.args) : relIn.args[i] \in flags

\* A line with this text was written
Printed(text) == \E i \in 1..Len(relOut) : relOut[i].text = text

\* The repository has a commit and its latest tag, if any, is a version
HealthyRepository ==
    /\ relIn.inside
    /\ relIn.head
    /\ \/ relIn.described = << >>
       \/ parse_semver(relIn.described) # << >>

C17_WitnessNoMessage ==
    /\ Finished
    /\ relIn.args = <<"minor", "--push", "--yes">>
    /\ relIn.described = <<"v", "1", ".", "2", ".", "3">>
    /\ relStatus = 1

MessageRequiredText == <<"Error: release message is required.">>

C18_WitnessHelp ==
    /\ Finished
    /\ relIn.args = <<"bugfix", "--help">>
    /\ relIn.inside

\* The number a component of a version stands for
Number(digits) == ValueInBase(digits, 10)

\* The next tag C19 states for a bump type and the components of the latest tag
StatedNextTag(bump_type, parts) ==
    CASE bump_type = "major" -> TagName(Decimal(Number(parts[1]) + 1), <<"0">>, <<"0">>)
      [] bump_type = "minor" -> TagName(parts[1], Decimal(Number(parts[2]) + 1), <<"0">>)
      [] bump_type = "bugfix" -> TagName(parts[1], parts[2], Decimal(Number(parts[3]) + 1))

\* The latest tag C19 starts from
StatedLatestTag ==
    IF relIn.described = << >> THEN <<"v", "0", ".", "0", ".", "0">> ELSE relIn.described

\* C19: the next tag is v(M+1).0.0, vM.(m+1).0 or vM.m.(p+1) of the latest
\* tag vM.m.p (v0.0.0 without a tag); a run creates no other tag than that
\* one, annotated and with the given message, and a run that ends well after
\* the creation has created it; another bump type or a latest tag of another
\* form creates no tag and, unless help was asked for, is an error.
C19_NextTag ==
    /\ \A t \in Created :
          /\ Len(relIn.args) >= 1
          /\ relIn.args[1] \in {"major", "minor", "bugfix"}
          /\ parse_semver(StatedLatestTag) # << >>
          /\ t.name = StatedNextTag(relIn.args[1], parse_semver(StatedLatestTag))
          /\ t.annotated
          /\ t.message = relLocal.message
    /\ Cardinality(Created) <= 1
    /\ (Finished /\ relStatus = 0 /\ Printed(<<"Created tag: ", relLocal.new_tag>>)) =>
          Cardinality(Created) = 1
    /\ (/\ Finished
        /\ relIn.inside
        /\ Len(relIn.args) >= 1
        /\ \/ relIn.args[1] \notin {"major", "minor", "bugfix"}
           \/ parse_semver(StatedLatestTag) = << >>) =>
          /\ Created = {}
          /\ relStatus # 0 \/ Printed(<<"Usage:">>)

\* Whether --push and --yes were given, as the option loop has read them
PushGiven == relPc # "main" /\ relLocal.do_push
YesGiven == relPc # "main" /\ relLocal.assume_yes

\* C20: a tag is pushed only when --push was given and, without --yes, only
\* after the push prompt was answered with a yes; what is pushed is the tag
\* the run has created; without --push nothing is pushed and a run that
\* created the tag prints the reminder to push it; with --yes no prompt is
\* issued.
C20_PushOnlyOnRequest ==
    /\ relPushed # << >> =>
          /\ PushGiven
          /\ \E i \in 2..Len(relIn.args) : relIn.args[i] \in {"--push", "-p"}
          /\ ~YesGiven =>
                \E i \in 1..Len(relPrompts) :
                    /\ relPrompts[i].prompt = "Push to origin"
                    /\ relPrompts[i].answer \in {"y", "Y", "yes", "YES"}
          /\ Len(relPushed) = 1
    /\ \A i \in 1..Len(relPushed) : relPushed[i] \in TagNames(Created)
    /\ (relPc # "main" /\ ~PushGiven) =>
          /\ relPushed = << >>
          /\ (Finished /\ Created # {}) =>
                Printed(<<"Push it with: git push origin ", relLocal.new_tag>>)
    /\ YesGiven => relPrompts = << >>
    /\ \A i \in 1..Len(relPrompts) :
          relPrompts[i].prompt = "Push to origin" => relLocal.new_tag \in TagNames(Created)

\* A run with --push and without --yes has pushed the tag after both prompts
C20_Witness ==
    /\ Finished
    /\ relPushed = <<relLocal.new_tag>>
    /\ Len(relPrompts) = 2
    /\ relStatus = 0

\* A run without --push has created the tag and printed the reminder
C20_WitnessReminder ==
    /\ Finished
    /\ ~PushGiven
    /\ Created # {}
    /\ Printed(<<"Push it with: git push origin ", relLocal.new_tag>>)

\* A run with --push and --yes has pushed without a prompt
C20_WitnessYes ==
    /\ Finished
    /\ YesGiven
    /\ relPushed # << >>

\* ========================================================================
\* scripts/generate-release-notes.sh, run on its own
\*
\* A commit subject is a sequence of symbols: the characters and words the
\* script's patterns look at ("feat", "fix", "(", ")", ":", "!", "|",
\* "BREAKING CHANGE") and chunks of other text. Tag names are sequences of
\* characters as for release.sh. The links (repo_url, linkify_pr_refs) and
\* the blank lines of the output are left out.

\* Longest list of commits 'git log' returns in the model
MaxCommits == 2

\* The subjects of the commits of the model
Subjects ==
    {<<"feat", ":", " add x">>,
     <<"feat", "(", "api", ")", ":", " add x">>,
     <<"fix", ":", " repair y">>,
     <<"fix", "(", "core", ")", ":", " repair y">>,
     <<"feat", "!", ":", " drop z">>,
     <<"fix", "(", "core", ")", "!", ":", " drop z">>,
     <<"docs", ":", " readme">>,
     <<"feat", "ure", ":", " add x">>,
     <<"Merge branch">>,
     <<"docs", ":", " note ", "BREAKING CHANGE">>,
     <<"docs", ":", " a ", "|", " b ", "BREAKING CHANGE">>}

\* The abbreviated hash of the i-th commit listed
Sha(i) == "c" \o ToString(i)

\* A commit of the range
Commit(subject, sha) == [subject |-> subject, sha |-> sha]

\* The lists of commits 'git log' can return, newest first
CommitLists ==
    {[i \in 1..n |-> Commit(subjects[i], Sha(i))] :
        n \in 0..MaxCommits, subjects \in [1..MaxCommits -> Subjects]}

\* git log --pretty=format:'%s|%h': one line per commit, with a newline
\* between two lines and none after the last
gitLogOutput(commits) ==
    [i \in 1..Len(commits) |->
        [text |-> commits[i].subject \o <<"|", commits[i].sha>>,
         newline |-> i < Len(commits)]]

\* while IFS= read -r line; do commit_lines+=("${line}"); done: read fails on
\* a line that does not end in a newline and the loop ends without it
RECURSIVE readLines(_)
readLines(output) ==
    IF output = << >> \/ ~Head(output).newline THEN << >>
    ELSE <<Head(output).text>> \o readLines(Tail(output))

\* ${line%%|*}: the line up to its first '|'
lineSubject(line) == SubSeq(line, 1, IndexOf(line, "|") - 1)

\* ${line##*|}: the line after its last '|'
lineSha(line) == line[Len(line)]

\* ${subject%%:*}: the subject up to its first ':', all of it without one
subjectHeader(subject) ==
    IF IndexOf(subject, ":") = 0 THEN subject
    ELSE SubSeq(subject, 1, IndexOf(subject, ":") - 1)

\* [[ "${subject}" == kind:* ]] || [[ "${subject}" == kind\(*\):* ]]
startsAs(subject, kind) ==
    /\ Len(subject) >= 2
    /\ subject[1] = kind
    /\ \/ subject[2] = ":"
       \/ /\ subject[2] = "("
          /\ \E i \in 3..(Len(subject) - 1) : subject[i] = ")" /\ subject[i + 1] = ":"

\* The group of a subject (the if/elif chain of the loop)
subjectGroup(subject) ==
    IF \/ \E i \in 1..Len(subject) : subject[i] = "BREAKING CHANGE"
       \/ /\ subjectHeader(subject) # << >>
          /\ subjectHeader(subject)[Len(subjectHeader(subject))] = "!"
    THEN "breaking"
    ELSE IF startsAs(subject, "feat") THEN "features"
    ELSE IF startsAs(subject, "fix") THEN "fixes"
    ELSE "others"

\* The groups in the order they are written, and their headings
GroupNames == <<"breaking", "features", "fixes", "others">>
GroupHeading ==
    [breaking |-> "### Breaking changes", features |-> "### Features",
     fixes |-> "### Bug fixes", others |-> "### Other changes"]

NoGroups == [breaking |-> << >>, features |-> << >>, fixes |-> << >>, others |-> << >>]

\* The for loop over commit_lines: every line is appended to its group
RECURSIVE collect(_, _)
collect(lines, groups) ==
    IF lines = << >> THEN groups
    ELSE collect(Tail(lines),
                 [groups EXCEPT ![subjectGroup(lineSubject(Head(lines)))] =
                     Append(@, Commit(lineSubject(Head(lines)), lineSha(Head(lines))))])

\* The sections appended to the output file: a heading and the items of
\* every group that is not empty
RECURSIVE sections(_, _)
sections(names, groups) ==
    IF names = << >> THEN << >>
    ELSE (IF groups[Head(names)] = << >> THEN << >>
          ELSE <<<<GroupHeading[Head(names)]>>>>
               \o [i \in 1..Len(groups[Head(names)]) |->
                      <<"- ", groups[Head(names)][i].subject, groups[Head(names)][i].sha>>])
         \o sections(Tail(names), groups)

\* parse_semver of generate-release-notes.sh: the same pattern as release.sh's
notesParseSemver(tag) == parse_semver(tag)

\* The version a tag of three components stands for, as 'git tag
\* --sort=v:refname' orders the tags of the model (none has a leading zero)
Version(tag) ==
    <<Number(notesParseSemver(tag)[1]), Number(notesParseSemver(tag)[2]),
      Number(notesParseSemver(tag)[3])>>

VersionLess(a, b) ==
    \/ a[1] < b[1]
    \/ a[1] = b[1] /\ a[2] < b[2]
    \/ a[1] = b[1] /\ a[2] = b[2] /\ a[3] < b[3]

\* grep -E '^v[0-9]+\.[0-9]+\.[0-9]+$' on the tags
SemverTags(tags) == {t \in tags : notesParseSemver(t) # << >>}

\* git tag --sort=-v:refname | grep ... | awk '$0 != cur { print; exit }':
\* the first tag, from the highest version down, that is not the current
\* tag; << >> when there is none
previousTag(tags, current_tag) ==
    IF SemverTags(tags) \ {current_tag} = {} THEN << >>
    ELSE CHOOSE t \in SemverTags(tags) \ {current_tag} :
            \A u \in SemverTags(tags) \ {current_tag, t} : VersionLess(Version(u), Version(t))

\* The release kind (lines 228-250)
releaseKind(prev_tag, current_tag) ==
    IF prev_tag = << >> THEN "initial"
    ELSE LET prev == notesParseSemver(prev_tag)
             cur == IF notesParseSemver(current_tag) # << >>
                    THEN notesParseSemver(current_tag) ELSE prev
         IN IF shellValue(cur[1]) > shellValue(prev[1]) THEN "major"
            ELSE IF shellValue(cur[2]) > shellValue(prev[2]) THEN "minor"
            ELSE IF shellValue(cur[3]) > shellValue(prev[3]) THEN "bugfix"
            ELSE "non-sequential"

\* The tags of the repositories of the model
NotesTags ==
    {TagName(<<"1">>, <<"0">>, <<"0">>),
     TagName(<<"1">>, <<"0">>, <<"1">>),
     TagName(<<"1">>, <<"9">>, <<"0">>),
     TagName(<<"1">>, <<"1", "0">>, <<"0">>),
     TagName(<<"2">>, <<"0">>, <<"0">>),
     <<"n", "i", "g", "h", "t", "l", "y">>}

\* The runs of the model: outside a repository, without --current-tag, and
\* for one of the tags of a repository
NotesInputs ==
    {[inside |-> FALSE, tags |-> {}, current_tag |-> << >>],
     [inside |-> TRUE, tags |-> {}, current_tag |-> << >>]}
    \cup {in \in [inside : {TRUE}, tags : SUBSET NotesTags, current_tag : NotesTags] :
            in.current_tag \in in.tags}

NotesLocals(prev_tag, range, release_kind) ==
    [prev_tag |-> prev_tag, range |-> range, release_kind |-> release_kind]

NotesInit ==
    /\ notesPc = "main"
    /\ notesIn \in NotesInputs
    /\ notesLocal = NotesLocals(<< >>, << >>, "initial")
    /\ notesLog = << >>
    /\ notesLines = << >>
    /\ notesGroups = NoGroups
    /\ notesOut = << >>
    /\ notesStatus = -1
    /\ WorkflowIdle
    /\ FedIdle
    /\ SDKIdle
    /\ ReleaseIdle

\* main up to the header of the notes (lines 166-266). Without a tag of
\* three components in the repository grep finds nothing and, under
\* pipefail, the assignment of prev_tag ends the script.
NotesMain ==
    /\ notesPc = "main"
    /\ IF ~notesIn.inside \/ notesIn.current_tag = << >> \/ SemverTags(notesIn.tags) = {}
       THEN /\ notesPc' = "exit"
            /\ notesStatus' = 1
            /\ UNCHANGED <<notesLocal, notesOut>>
       ELSE LET prev_tag == previousTag(notesIn.tags, notesIn.current_tag)
                kind == releaseKind(prev_tag, notesIn.current_tag)
            IN /\ notesLocal' =
                    NotesLocals(prev_tag,
                                IF prev_tag # << >>
                                THEN <<prev_tag, "..", notesIn.current_tag>>
                                ELSE <<notesIn.current_tag>>,
                                kind)
               /\ notesOut' =
                    <<<<"## Release ", notesIn.current_tag>>, <<"- Date: ", "today">>>>
                    \o (IF prev_tag # << >>
                        THEN <<<<"- Previous version: ", prev_tag>>,
                               <<"- Release type: ", kind>>,
                               <<"- Compare: ", prev_tag, "...", notesIn.current_tag>>>>
                        ELSE <<<<"- Previous version: none">>,
                               <<"- Release type: initial">>>>)
               /\ notesPc' = "log"
               /\ UNCHANGED notesStatus
    /\ UNCHANGED <<notesIn, notesLog, notesLines, notesGroups, workflowVars, fedVars, sdkVars, relVars>>

\* git log for the range and the loop that reads its output (lines 268-276)
NotesLog ==
    /\ notesPc = "log"
    /\ \E commits \in CommitLists :
        /\ notesLog' = commits
        /\ notesLines' = readLines(gitLogOutput(commits))
        /\ IF readLines(gitLogOutput(commits)) = << >>
           THEN /\ notesOut' = Append(notesOut, <<"No commits found in range ", notesLocal.range>>)
                /\ notesStatus' = 0
                /\ notesPc' = "exit"
           ELSE /\ notesPc' = "collect"
                /\ UNCHANGED <<notesOut, notesStatus>>
    /\ UNCHANGED <<notesIn, notesLocal, notesGroups, workflowVars, fedVars, sdkVars, relVars>>

\* The loop over commit_lines (lines 278-300)
NotesCollect ==
    /\ notesPc = "collect"
    /\ notesGroups' = collect(notesLines, NoGroups)
    /\ notesPc' = "write"
    /\ UNCHANGED <<notesIn, notesLocal, notesLog, notesLines, notesOut, notesStatus,
                   workflowVars, fedVars, sdkVars, relVars>>

\* The four sections (lines 302-338)
NotesWrite ==
    /\ notesPc = "write"
    /\ notesOut' = notesOut \o sections(GroupNames, notesGroups)
    /\ notesStatus' = 0
    /\ notesPc' = "exit"
    /\ UNCHANGED <<notesIn, notesLocal, notesLog, notesLines, notesGroups,
                   workflowVars, fedVars, sdkVars, relVars>>

NotesNext ==
    \/ NotesMain
    \/ NotesLog
    \/ NotesCollect
    \/ NotesWrite

NotesSpec == NotesInit /\ [][NotesNext]_vars

\* The run has written its notes
NotesWritten == notesPc = "exit" /\ notesStatus = 0

\* Where the commit with this hash is listed in the groups
Listed(sha) ==
    {<<g, j>> \in {"breaking", "features", "fixes", "others"} \X (1..Len(notesLog)) :
        j <= Len(notesGroups[g]) /\ notesGroups[g][j].sha = sha}

\* C21: every commit of the range is in exactly one of the four groups, the
\* one its subject belongs to (breaking for 'BREAKING CHANGE' or a header
\* ending in '!', else features for 'feat:'/'feat(scope):', else fixes for
\* 'fix:'/'fix(scope):', else others); none is dropped or listed twice, and
\* a group gets its heading only when it has a commit.
C21_EveryCommitOnce ==
    NotesWritten =>
        /\ \A i \in 1..Len(notesLog) :
              /\ Cardinality(Listed(notesLog[i].sha)) = 1
              /\ \A at \in Listed(notesLog[i].sha) : at[1] = subjectGroup(notesLog[i].subject)
        /\ \A g \in {"breaking", "features", "fixes", "others"} :
              (\E k \in 1..Len(notesOut) : notesOut[k] = <<GroupHeading[g]>>)
                  <=> notesGroups[g] # << >>

\* The run has chosen the previous tag for a current tag that is a version
NotesChosen ==
    /\ notesPc # "main"
    /\ notesStatus # 1
    /\ notesParseSemver(notesIn.current_tag) # << >>

\* The tags of the repository with a lower version than the current tag
LowerTags ==
    {t \in SemverTags(notesIn.tags) :
        VersionLess(Version(t), Version(notesIn.current_tag))}

\* C22: the previous tag is the greatest tag of three components that is
\* lower than the current tag and the range is previous..current; without a
\* lower tag the release is initial with previous version 'none'.
C22_PreviousTag ==
    NotesChosen =>
        IF LowerTags = {}
        THEN /\ notesLocal.prev_tag = << >>
             /\ notesLocal.release_kind = "initial"
             /\ \E k \in 1..Len(notesOut) : notesOut[k] = <<"- Previous version: none">>
        ELSE /\ notesLocal.prev_tag \in LowerTags
             /\ \A u \in LowerTags :
                   ~VersionLess(Version(notesLocal.prev_tag), Version(u))
             /\ notesLocal.range = <<notesLocal.prev_tag, "..", notesIn.current_tag>>

\* C30: the release type is major, minor or bugfix only when the current
\* version is greater than the previous tag's and first differs from it in
\* that component, and non-sequential whenever the current version is not
\* greater than the previous tag's.
C30_ReleaseType ==
    (NotesChosen /\ notesLocal.prev_tag # << >>) =>
        LET cur == Version(notesIn.current_tag)
            prev == Version(notesLocal.prev_tag)
        IN /\ notesLocal.release_kind = "major" => cur[1] > prev[1]
           /\ notesLocal.release_kind = "minor" => cur[1] = prev[1] /\ cur[2] > prev[2]
           /\ notesLocal.release_kind = "bugfix" =>
                 cur[1] = prev[1] /\ cur[2] = prev[2] /\ cur[3] > prev[3]
           /\ ~VersionLess(prev, cur) => notesLocal.release_kind = "non-sequential"

\* ========================================================================
\* The order of the collaborator calls of runWorkflow (specification Spec)

\* The call calls[i + 1] is the one that follows calls[i] in runWorkflow,
\* given what calls[i] returned
FollowsInOrder(i) ==
    CASE calls[i].op = "GetCallerIdentity" /\ i = 1 ->
            IF Failed(1) THEN calls[2].op = "login" ELSE calls[2].op = "RetrieveCredentials"
      [] calls[i].op = "login" ->
            ~Failed(i) /\ calls[i + 1].op = "GetCallerIdentity"
      [] calls[i].op = "GetCallerIdentity" /\ i > 1 ->
            ~Failed(i) /\ calls[i - 1].op = "login" /\ calls[i + 1].op = "RetrieveCredentials"
      [] calls[i].op = "RetrieveCredentials" ->
            /\ ~Failed(i)
            /\ calls[i + 1].op =
                  (IF returns[i].creds.SessionToken = "" THEN "GetSessionToken" ELSE "BuildConsoleURL")
      [] calls[i].op = "GetSessionToken" ->
            ~Failed(i) /\ calls[i + 1].op = "BuildConsoleURL"
      [] calls[i].op = "BuildConsoleURL" ->
            ~Failed(i) /\ calls[i + 1].op = "open"
      [] calls[i].op = "open" -> FALSE

\* C23: the collaborator calls of a run occur in the fixed order
\* GetCallerIdentity, (login, GetCallerIdentity), RetrieveCredentials,
\* (GetSessionToken), BuildConsoleURL, open: the first call is
\* GetCallerIdentity, every later call is the successor in that order of a
\* call that returned successfully (login being the successor of the failed
\* first GetCallerIdentity only), and RetrieveCredentials, BuildConsoleURL
\* and open are each called at most once.
C23_CallOrder ==
    /\ Len(calls) > 0 => calls[1].op = "GetCallerIdentity"
    /\ \A i \in 1..(Len(calls) - 1) : FollowsInOrder(i)
    /\ Count("RetrieveCredentials") <= 1
    /\ Count("BuildConsoleURL") <= 1
    /\ Count("open") <= 1

\* A finished run that made all seven calls, the last one being open
C23_Witness ==
    /\ pc = "done"
    /\ Len(calls) = 7
    /\ calls[2].op = "login"
    /\ calls[5].op = "GetSessionToken"
    /\ calls[7].op = "open"

\* ------------------------------------------------------------------------
\* Termination of runWorkflow: every collaborator call returns, so a step
\* that is enabled is eventually taken

LiveSpec == Spec /\ WF_vars(Next)

\* The position of a step in runWorkflow
StepOf(at) ==
    CASE at = "RunE" -> 0
      [] at = "GetCallerIdentity" -> 1
      [] at = "login" -> 2
      [] at = "GetCallerIdentityRetry" -> 3
      [] at = "RetrieveCredentials" -> 4
      [] at = "GetSessionToken" -> 5
      [] at = "BuildConsoleURL" -> 6
      [] at = "open" -> 7
      [] at = "done" -> 8

\* C24: every run of runWorkflow terminates, after at most seven
\* collaborator calls (at most two GetCallerIdentity and one each of login,
\* RetrieveCredentials, GetSessionToken, BuildConsoleURL and open), and no
\* step is followed by itself or by an earlier step.
C24_Terminates ==
    /\ <>(pc = "done")
    /\ [](/\ Len(calls) <= 7
          /\ Count("GetCallerIdentity") <= 2
          /\ \A op \in {"login", "RetrieveCredentials", "GetSessionToken", "BuildConsoleURL", "open"} :
                Count(op) <= 1)
    /\ [][StepOf(pc') > StepOf(pc)]_pc

\* A finished run of seven calls
C24_Witness ==
    /\ pc = "done"
    /\ Len(calls) = 7
    /\ Count("GetCallerIdentity") = 2

\* ------------------------------------------------------------------------
\* What runWorkflow passes on to its collaborators

\* C25: every call of GetCallerIdentity, login, RetrieveCredentials and
\* GetSessionToken receives the profile the workflow was started with, and
\* GetSessionToken and BuildConsoleURL receive the session duration of the
\* dependencies (43200 seconds).
C25_InputsForwarded ==
    \A i \in 1..Len(calls) :
        /\ calls[i].op \in {"GetCallerIdentity", "login", "RetrieveCredentials", "GetSessionToken"} =>
              /\ calls[i].profile = profile
              /\ calls[i].profile = (IF flag = "" THEN envProfile ELSE flag)
        /\ calls[i].op \in {"GetSessionToken", "BuildConsoleURL"} =>
              calls[i].duration = 43200

\* A finished run with a profile that validated twice, logged in and
\* requested temporary credentials
C25_Witness ==
    /\ pc = "done"
    /\ profile = "flag-profile"
    /\ Count("GetCallerIdentity") = 2
    /\ Count("GetSessionToken") = 1
    /\ Count("BuildConsoleURL") = 1

\* ------------------------------------------------------------------------
\* runWorkflow called again in the same process, with the same profile and
\* dependencies. Its variables (identity, err, creds, loginURL) are locals,
\* declared anew by every call; the package has no variable.

\* What a finished run leaves to compare a later run with
RunRecord ==
    [calls |-> calls, returns |-> returns, execCalls |-> execCalls,
     stdout |-> stdout, stderr |-> stderr, result |-> result]

\* Fault variant: an identity validated by an earlier run is not validated again
Restart_ValidatedOnce ==
    /\ pc = "done"
    /\ prior = << >>
    /\ prior' = <<RunRecord>>
    /\ pc' = IF identity # ZeroIdentity THEN "RetrieveCredentials" ELSE "GetCallerIdentity"
    /\ identity' = ZeroIdentity
    /\ creds' = ZeroCredentials
    /\ loginURL' = ""
    /\ result' = NoError
    /\ calls' = << >>
    /\ returns' = << >>
    /\ execCalls' = << >>
    /\ stdout' = << >>
    /\ stderr' = << >>
    /\ UNCHANGED <<flag, envProfile, goos, profile, unitVars>>

\* A second call of runWorkflow after the first has returned
Restart ==
    /\ pc = "done"
    /\ prior = << >>
    /\ prior' = <<RunRecord>>
    /\ pc' = "GetCallerIdentity"
    /\ identity' = ZeroIdentity
    /\ creds' = ZeroCredentials
    /\ loginURL' = ""
    /\ result' = NoError
    /\ calls' = << >>
    /\ returns' = << >>
    /\ execCalls' = << >>
    /\ stdout' = << >>
    /\ stderr' = << >>
    /\ UNCHANGED <<flag, envProfile, goos, profile, unitVars>>

RerunNext ==
    \/ Next
    \/ Restart

RerunSpec == Init /\ [][RerunNext]_vars

IsPrefix(a, b) == Len(a) <= Len(b) /\ SubSeq(b, 1, Len(a)) = a

C26_WitnessOther ==
    /\ prior # << >>
    /\ pc = "done"
    /\ returns # prior[1].returns
    /\ result # prior[1].result

\* ========================================================================
\* The HTTP exchange of FederationClient.BuildConsoleURL (specification
\* FedSpec; the client's federation URL is the default one, which parses)

C27_WitnessEmptyToken ==
    /\ fedPc = "done"
    /\ fedIn.durationSeconds = 3600
    /\ fedOut.err = <<"received empty signin token from federation endpoint">>

\* C28 as stated: the status is checked before the body is looked at, so a
\* response with a status other than 200 gives the 'HTTP <status>' error and
\* no URL.
C28_StatusFirst ==
    (/\ fedPc = "done"
     /\ FedResponse.doErr = NoError
     /\ FedResponse.status # 200) =>
        /\ fedOut.err = <<"federation endpoint returned HTTP", ToString(FedResponse.status)>>
        /\ fedOut.url = << >>

\* C28, amended: the body is read first and a body that cannot be read gives
\* 'failed to read federation response' whatever the status; the status is
\* checked before the body is parsed: a response with a status other than
\* 200 whose body was read gives the 'HTTP <status>' error and no URL, also
\* for a body with a non-empty SigninToken, and only the body of a 200
\* response is parsed.
C28_StatusBeforeParse ==
    (fedPc = "done" /\ FedResponse.doErr = NoError) =>
        /\ FedResponse.body.kind = "unreadable" =>
              /\ fedOut.err[1] = "failed to read federation response"
              /\ fedOut.url = << >>
        /\ (FedResponse.body.kind # "unreadable" /\ FedResponse.status # 200) =>
              /\ fedOut.err = <<"federation endpoint returned HTTP", ToString(FedResponse.status)>>
              /\ fedOut.url = << >>
        /\ (\/ fedOut.err = NoError
            \/ fedOut.err[1] \in {"failed to parse signin token response",
                                  "received empty signin token from federation endpoint"}) =>
              FedResponse.status = 200

\* A 403 response with a readable body that holds a sign-in token
C28_Witness ==
    /\ fedPc = "done"
    /\ FedResponse.status = 403
    /\ FedResponse.body.kind = "object"
    /\ FedResponse.body.token # << >>
    /\ fedOut.err = <<"federation endpoint returned HTTP", "403">>

\* A 500 response with a body that is not JSON
C28_WitnessInvalid ==
    /\ fedPc = "done"
    /\ FedResponse.status = 500
    /\ FedResponse.body.kind = "invalid"
    /\ fedOut.err = <<"federation endpoint returned HTTP", "500">>

\* ========================================================================
\* The checks of release.sh before the tag (specification ReleaseSpec)

\* The tag the run has computed is a tag of the repository it started in
TagExists ==
    /\ relPc # "main"
    /\ relLocal.new_tag # << >>
    /\ relLocal.new_tag \in TagNames(relIn.tags)

\* The create prompt was issued and not answered with a yes
CreateDeclined ==
    \E i \in 1..Len(relPrompts) :
        /\ relPrompts[i].prompt = "Create annotated tag"
        /\ relPrompts[i].answer \notin {"y", "Y", "yes", "YES"}

\* The argument at position i is the value of a message option
MessageValue(i) == i > 2 /\ relIn.args[i - 1] \in {"-m", "--message"}

\* An argument after the bump type is neither an option nor a message
UnknownArgument ==
    \E i \in 2..Len(relIn.args) :
        /\ relIn.args[i] \notin {"-m", "--message", "-p", "--push", "-y", "--yes", "-h", "--help"}
        /\ ~MessageValue(i)

\* The first argument is neither a bump type nor the help option
InvalidBump ==
    /\ Len(relIn.args) >= 1
    /\ relIn.args[1] \notin {"major", "minor", "bugfix", "-h", "--help"}

\* A help option stands on the command line
HelpGiven ==
    \E i \in 1..Len(relIn.args) : relIn.args[i] \in {"-h", "--help"} /\ ~MessageValue(i)

\* C29 as stated: when the computed tag exists, the create prompt is
\* declined, an unknown argument is given or the bump type is invalid, the
\* script exits with a non-zero status, the tags of the repository are
\* unchanged and nothing is pushed.
C29_ChecksFail ==
    (Finished /\ (TagExists \/ CreateDeclined \/ UnknownArgument \/ InvalidBump)) =>
        /\ relStatus # 0
        /\ relTags = relIn.tags
        /\ relPushed = << >>

\* C29, amended: in each of the four cases the tags of the repository are
\* unchanged and nothing is pushed; the exit status is non-zero when the tag
\* exists or the prompt is declined, and for an unknown argument or an
\* invalid bump type unless a help option is given, which can end the script
\* with status 0 before the argument or the bump type is examined.  A tag is
\* created only by a run that passed every check, and only a created tag is
\* pushed.
C29_NoTagOnFailure ==
    /\ (relPc # "main" /\ (TagExists \/ CreateDeclined \/ UnknownArgument \/ InvalidBump)) =>
          /\ relTags = relIn.tags
          /\ relPushed = << >>
          /\ relPc \in {"exit", "confirmCreate"}
          /\ Finished =>
                /\ (TagExists \/ CreateDeclined) => relStatus = 1
                /\ ~HelpGiven => relStatus # 0
                /\ relStatus = 0 => Printed(<<"Usage:">>)
    /\ Created # {} =>
          /\ relIn.args[1] \in {"major", "minor", "bugfix"}
          /\ ~UnknownArgument
          /\ relLocal.message # ""
          /\ relLocal.new_tag \notin TagNames(relIn.tags)
          /\ TagNames(Created) = {relLocal.new_tag}
          /\ \/ YesGiven
             \/ \E i \in 1..Len(relPrompts) :
                    /\ relPrompts[i].prompt = "Create annotated tag"
                    /\ relPrompts[i].answer \in {"y", "Y", "yes", "YES"}
    /\ relPushed # << >> => Created # {}

\* The create prompt was declined
C29_Witness ==
    /\ Finished
    /\ CreateDeclined
    /\ relStatus = 1
    /\ Printed(<<"Aborted.">>)
    /\ relTags = relIn.tags

\* The computed tag was there already
C29_WitnessExists ==
    /\ Finished
    /\ TagExists
    /\ relStatus = 1
    /\ relPrompts = << >>

\* An unknown argument after a message
C29_WitnessUnknown ==
    /\ Finished
    /\ UnknownArgument
    /\ relLocal # << >>
    /\ relStatus = 1

\* An invalid bump type with a help option
C29_WitnessHelp ==
    /\ Finished
    /\ InvalidBump
    /\ HelpGiven
    /\ relStatus = 0

\* A help option as the first argument, then an unknown argument
C29_WitnessHelpFirst ==
    /\ Finished
    /\ UnknownArgument
    /\ relIn.args[1] = "--help"
    /\ relStatus = 0

====
